---- MODULE Spec2Model ----
(***************************************************************************)
(* Alfa Romeo Giulia dashboard info (ESP32-S3).                            *)
(*                                                                         *)
(* Two execution contexts:                                                 *)
(*   - the acquisition context (setup() / loop() on core 1): power state   *)
(*     machine, OBD2 requests, frame routing, snapshot writes;             *)
(*   - the display context (task DisplayInfoOnDashboard on core 0):        *)
(*     snapshot copy, text generation, multi-frame display protocol.       *)
(*                                                                         *)
(* Bus input is nondeterministic: every poll of the high-speed bus is      *)
(* given a batch of frames, every read of the low-speed bus is given a     *)
(* frame or nothing.                                                       *)
(***************************************************************************)
EXTENDS Integers, Sequences, FiniteSets, TLC

VARIABLES
  apc,                    \* position of the acquisition context (setup/loop)
  caller,                 \* which function called CarIgnitionOn
  g_bInDeepSleep,         \* RTC_DATA_ATTR bool, retained across deep sleep
  timerActive,            \* timerWaitBeforeGoingIntoDeepSleep.IsActive()
  timerLeft,              \* time left of timerWaitBeforeGoingIntoDeepSleep, in ticks
  g_IgnitionKeyPosition,  \* last decoded ignition key position
  g_Gear,                 \* last decoded gear
  g_CurrentCarData,       \* the shared snapshot
  semHolder,              \* g_SemaphoreCarData: "none" (not created), "free", "main", "disp"
  task,                   \* g_TaskDisplayInfoOnDashboard: "none", "running", "suspended", "deleted"
  sn65,                   \* mode of the high-speed transceiver: "off", "listen", "normal"
  mcp,                    \* mode of the low-speed controller: "off", "normal", "sleep"
  hsTx,                   \* a frame has been transmitted on the high-speed bus since boot
  unanswered,             \* ignition requests sent since an ignition response was last read
  dsDelay,                \* time left of DeepSleep's delay(500), in display ticks
  dsLog,                  \* steps DeepSleep has executed, in order
  sawDriveMode,           \* history: ReceviedAnyCANFrame was given an 8-byte drive-mode frame
  ignSeen,                \* history: ignition response WaitForCarToTurnOn's CarIgnitionOn was given:
                          \* "none", "Off", "OnOrStart"
  dpc,                    \* position of the display context
  carData,                \* the display context's local copy of the snapshot
  currentFrame,           \* SetDashboardText: loop variable
  delayShort,             \* SetDashboardText: delayTimeBetweenFrames was shortened
  currentRadioFrame,      \* SetDashboardText: frame index of the last radio frame
  numRadioFrames,         \* SetDashboardText: frame count of the last radio frame
  dWait,                  \* time left of the display context's delay, in display ticks
  stepTx,                 \* history: frame index the latest SetDashboardText step sent, or -1
  stepRx,                 \* history: what the latest SetDashboardText step read: "none", "competing1", "other"
  recovEq,                \* history: a competing frame 1 was read, no competing frame with index = total-1 since
  recovGe,                \* history: a competing frame 1 was read, no frame with index >= total-1 since
  emptyTurns,             \* SetDashboardText: parity of the turns of the inner while loop that read nothing,
                          \* reset when a frame is read
  nameTimerRestarted,     \* history: the else branch of the task's loop has called
                          \* timerShowNameAndVersion.Start() in this cycle
  hdr,                    \* SetDashboardTextCharacters on its own: arguments and the bytes written
  pcd,                    \* ProcessCarData on its own: carData, its globals and its two timers
  dec,                    \* CalcGear_FromBroadcastedFrame on its own: byte 0 and the gear returned
  gt,                     \* GenerateText on its own: its inputs, its timers and the message selector
  txt,                    \* GenerateText's formatting on its own: the message, its values and the text
  su,                     \* setup after WaitForCarToTurnOn on its own: the two controllers' begin calls
  sdt,                    \* SetDashboardText on its own: its locals and the frames it has sent
  rt                      \* ProcessReceivedCANFrames on its own: the decoded globals and the snapshot

powerVars == <<apc, caller, g_bInDeepSleep, timerActive, timerLeft, sn65, mcp, hsTx,
               unanswered, dsDelay, dsLog, sawDriveMode, ignSeen>>
dataVars  == <<g_IgnitionKeyPosition, g_Gear, g_CurrentCarData, semHolder, task>>
dispVars  == <<dpc, carData, currentFrame, delayShort, currentRadioFrame, numRadioFrames,
               dWait, stepTx, stepRx, recovEq, recovGe>>
\* state of the functions that are checked on their own
unitVars == <<hdr, pcd, dec, gt, txt, su, sdt, rt>>
vars == <<powerVars, dataVars, dispVars, emptyTurns, nameTimerRestarted, unitVars>>

-----------------------------------------------------------------------------
(* Bounds of the model *)

MaxBatch == 1         \* frames handed to one drain of the high-speed receive queue
MaxUnanswered == 6    \* cap of the unanswered-request counter

-----------------------------------------------------------------------------
(* Program constants *)

ProbeWindowMs == 5000        \* timerWaitBeforeGoingIntoDeepSleep(5000)
ProbeDelayMs == 1000         \* delay(1000) in ReceviedAnyCANFrame
VerifyDelayMs == 500         \* delay(500) in CarIgnitionOn
LowFrequencyMs == 1000       \* timerLowFrequency(1000): ignition request period
DeepSleepDelayMs == 500      \* delay(500) in DeepSleep
DeepSleepTimeSec == 12       \* DeepSleepTime = 12 * 1000000ULL

IgnOff == 0                  \* IgnitionKeyPosition::Off
IgnOn == 4                   \* IgnitionKeyPosition::On
IgnStart == 20               \* IgnitionKeyPosition::Start

PID_IgnitionKeyPosition == 305   \* 0x0131
PID_BoostPressure == 6490        \* 0x195a

\* The probe timer is counted in ticks of the shortest delay that reads it.
ProbeWindowTicks == ProbeWindowMs \div VerifyDelayMs
ProbeDelayTicks  == ProbeDelayMs \div VerifyDelayMs
VerifyDelayTicks == VerifyDelayMs \div VerifyDelayMs

Max(a, b) == IF a > b THEN a ELSE b
Min(a, b) == IF a < b THEN a ELSE b

-----------------------------------------------------------------------------
(* Frames of the high-speed bus *)

HSFrame(id, dlc, pid, d0, d4) == [id |-> id, dlc |-> dlc, pid |-> pid, d0 |-> d0, d4 |-> d4]

HSFrames ==
  { HSFrame("DriveMode", 8, 0, 0, 0),
    HSFrame("DriveMode", 4, 0, 0, 0),
    HSFrame("BCM", 8, PID_IgnitionKeyPosition, 0, IgnOff),
    HSFrame("BCM", 8, PID_IgnitionKeyPosition, 0, IgnOn),
    HSFrame("BCM", 8, PID_IgnitionKeyPosition, 0, IgnStart),
    HSFrame("ECM", 8, PID_BoostPressure, 0, 0),
    HSFrame("GearInfo", 8, 0, 16, 0) }

Batches == UNION { [1..n -> HSFrames] : n \in 0..MaxBatch }

\* OBD2Utils.h: a frame identifier of a car module answering OBD2 requests
IsValidCarModule(canID) == canID \in {"ECM", "BCM"}

\* OBD2Utils.h: the PID a module response carries
GetPID(frame) == frame.pid

\* CalcIgnitionKeyPosition: g_IgnitionKeyPosition = pData[4]
CalcIgnitionKeyPosition(frame) == frame.d4

\* fault: the high nibble of byte 0 is returned as it is
RawGearNibble(frame) == frame.d0 \div 16

\* CalcGear_FromBroadcastedFrame: high nibble of byte 0
CalcGear_FromBroadcastedFrame(frame) ==
  LET g == frame.d0 \div 16 IN
    IF g = 7 THEN -1
    ELSE IF g >= 8 /\ g <= 10 THEN g - 1
    ELSE IF g = 15 THEN 0
    ELSE g

\* fault: any frame read counts as traffic of a car that is turned on
AnyFrameIsTraffic(batch, i) == Len(batch) > 0

\* ReceviedAnyCANFrame, inner while: TRUE iff the drain meets a drive-mode
\* frame of 8 bytes
RECURSIVE ScanForDriveMode(_, _)
ScanForDriveMode(batch, i) ==
  IF i > Len(batch) THEN FALSE
  ELSE IF batch[i].id = "DriveMode" /\ batch[i].dlc = 8 THEN TRUE
  ELSE ScanForDriveMode(batch, i + 1)

\* CarIgnitionOn, inner while: index of the first ignition response in the
\* drain, 0 if there is none
RECURSIVE ScanForIgnition(_, _)
ScanForIgnition(batch, i) ==
  IF i > Len(batch) THEN 0
  ELSE IF IsValidCarModule(batch[i].id) /\ GetPID(batch[i]) = PID_IgnitionKeyPosition THEN i
  ELSE ScanForIgnition(batch, i + 1)

\* ProcessReceivedCANFrames, while loop: the decoded globals after the drain
RECURSIVE RouteFrames(_, _, _)
RouteFrames(batch, i, g) ==
  IF i > Len(batch) THEN g
  ELSE LET f == batch[i] IN
    IF IsValidCarModule(f.id)
    THEN IF GetPID(f) = PID_IgnitionKeyPosition
         THEN RouteFrames(batch, i + 1, [g EXCEPT !.ign = CalcIgnitionKeyPosition(f), !.ignRead = TRUE])
         ELSE RouteFrames(batch, i + 1, g)
    ELSE IF f.dlc = 8 /\ f.id = "GearInfo"
         THEN RouteFrames(batch, i + 1, [g EXCEPT !.gear = CalcGear_FromBroadcastedFrame(f)])
         ELSE RouteFrames(batch, i + 1, g)

\* fault: every key position counts as on
AnyPositionIsOn(pos) == TRUE

\* g_IgnitionKeyPosition != IgnitionKeyPosition::Off
IgnitionIsOn(pos) == pos # IgnOff

-----------------------------------------------------------------------------
(* Timer timerWaitBeforeGoingIntoDeepSleep *)

\* AsyncTimer::RanOut
RanOut == timerLeft = 0

\* time left after delay(ticks)
AfterDelay(left, ticks) == Max(0, left - ticks)

-----------------------------------------------------------------------------
(* State after a reset (power-on, ESP.restart, wake from deep sleep):       *)
(* everything in RAM has its static initial value                           *)

NoCarData == [Gear |-> 0, bCarTurnedOn |-> FALSE]

\* CAN.read gave no frame (CAN_NOMSG)
NoFrame == [b0 |-> -1, b1 |-> -1]

\* SetDashboardTextCharacters has not been called
NoHdr == [numFrames |-> 1, currentFrame |-> 0, infoCode |-> 0, canData |-> NoFrame]

RamReset ==
  /\ apc' = "setup"
  /\ caller' = "none"
  /\ timerActive' = FALSE
  /\ timerLeft' = 0
  /\ g_IgnitionKeyPosition' = IgnOff
  /\ g_Gear' = 0
  /\ g_CurrentCarData' = NoCarData
  /\ semHolder' = "none"
  /\ task' = "none"
  /\ sn65' = "off"
  /\ hsTx' = FALSE
  /\ unanswered' = 0
  /\ dsDelay' = 0
  /\ dsLog' = << >>
  /\ sawDriveMode' = FALSE
  /\ ignSeen' = "none"
  /\ dpc' = "none"
  /\ carData' = NoCarData
  /\ currentFrame' = 0
  /\ delayShort' = FALSE
  /\ currentRadioFrame' = 0
  /\ numRadioFrames' = 0
  /\ dWait' = 0
  /\ stepTx' = -1
  /\ stepRx' = "none"
  /\ recovEq' = FALSE
  /\ recovGe' = FALSE
  /\ emptyTurns' = 0
  /\ nameTimerRestarted' = FALSE

\* static initial values of ProcessCarData.h: no data, no boost seen, both
\* timers without time left; tierDuration and turboCooldownDuration are the
\* locals of the latest call (-1: not computed), windowMaxEngineRPM and
\* windowMaxExhaustGasTemp the peaks its for loop has looked at (-1: none)
NoPcd ==
  [pc |-> "CopyCarData",
   carData |-> [EngineRPM |-> 0, ExhaustGasTemp |-> 0, EngineOilTemp |-> 0,
                BoostPressure |-> 0, AtmosphericPressure |-> 0, Gear |-> 0],
   turboBoostPsi |-> 0, maxBoostPsi |-> 0, maxBoostRPM |-> 0, maxBoostGear |-> 0,
   maxColdRPM |-> 0,
   timerTurboCooldown |-> [duration |-> 0, left |-> 0], timerTurboCooldownMonitor |-> 0,
   monitorMaxEngineRPM |-> 0, monitorMaxExhaustGasTemp |-> 0,
   windowMaxEngineRPM |-> -1, windowMaxExhaustGasTemp |-> -1,
   tierDuration |-> -1, turboCooldownDuration |-> -1]

\* CalcGear_FromBroadcastedFrame has not been called
NoDec == [d0 |-> 0, done |-> FALSE, gear |-> 0]

\* static initial values of DisplayInfoOnDashboard.h: no timer started, no
\* message active; infoToDisplay is the message of the latest call (-2: no
\* call in this cycle), driveLog, idleToggles, idleLog, quietToggle and
\* idleMs are histories
NoGt ==
  [pc |-> "CopyCarData",
   carData |-> [EngineRPM |-> 0, Gear |-> 0, EngineOilTemp |-> 0, DriveMode |-> "N",
                Battery |-> 0],
   maxBoostPsi |-> 0,
   maxColdRPM |-> 0,
   timerTurboCooldown |-> 0,
   timerShowNameAndVersion |-> 0,
   timerWaitBeforeShowingInfoWhileIdle |-> [active |-> FALSE, left |-> 0],
   timerToggleInfoWhileDriving |-> 0,
   timerToggleInfoWhileIdling |-> 0,
   infoIndexWhileDriving |-> 0,
   infoIndexWhileIdling |-> 4,
   bIsInfoActive |-> {},
   bFoundActiveIdleMessage |-> FALSE,
   infoToDisplay |-> -2,
   driveLog |-> << >>,
   idleToggles |-> 0,
   idleLog |-> << >>,
   quietToggle |-> FALSE,
   idleMs |-> -1,
   steady |-> [S |-> {}, toggles |-> 0, log |-> << >>]]

\* GenerateText has formatted no text
NoTxt ==
  [infoToDisplay |-> -2,
   carData |-> [Gear |-> 0, EngineTemp |-> 0, EngineOilTemp |-> 0, Battery |-> 0],
   turboBoostPsi |-> 0, maxBoostPsi |-> 0, maxBoostRPM |-> 0, maxBoostGear |-> 0,
   secondsLeft |-> 0,
   text |-> "", done |-> FALSE]

\* setup has returned from WaitForCarToTurnOn; no begin call of
\* SetupCollectCarData and SetupDisplayInfoOnDashboard was made yet
NoSu ==
  [pc |-> "SetupCollectCarData", sn65 |-> "off", mcp |-> "off", requests |-> 0,
   retries |-> 0, task |-> FALSE]

HdrAtRest == hdr = NoHdr
SuAtRest == su = NoSu
TxtAtRest == txt = NoTxt
GtAtRest == gt = NoGt
PcdAtRest == pcd = NoPcd
DecAtRest == dec = NoDec

\* SetDashboardText has not been called: no frame sent; sent holds the latest
\* frames of the call (at most NumFramesToDisplayText), numSent their number
\* up to one more than that, dWait the delay after the latest frame of the
\* for loop, competing (a radio frame has made the call leave the plain loop),
\* restarts (their number) and restarted (the loop was restarted and has sent
\* no frame since) are histories of the call
NoSdt ==
  [pc |-> "CopyCarData", text |-> "", currentFrame |-> 0, delayShort |-> FALSE,
   currentRadioFrame |-> 0, numRadioFrames |-> 0, dWait |-> 0,
   sent |-> << >>, numSent |-> 0, competing |-> FALSE, restarts |-> 0, restarted |-> FALSE]

SdtAtRest == sdt = NoSdt

\* ProcessReceivedCANFrames has not been called: the statics of the decoders
\* (the battery in tenths of a volt), the zero-initialised snapshot; g0 and
\* snapshot0 are their values at the start of the drain, frames the frames
\* the drain has read
NoRt ==
  LET g == [BoostPressure |-> 0, EngineTemp |-> 0, EngineOilTemp |-> 0, ExhaustGasTemp |-> 0,
            AtmosphericPressure |-> 0, IgnitionKeyPosition |-> IgnOff, Battery |-> 0,
            DriveMode |-> 1, Gear |-> 0, EngineRPM |-> 0]
      snapshot == [BoostPressure |-> 0, EngineTemp |-> 0, EngineOilTemp |-> 0,
                   ExhaustGasTemp |-> 0, AtmosphericPressure |-> 0, bCarTurnedOn |-> FALSE,
                   Battery |-> 0, DriveMode |-> 0, Gear |-> 0, EngineRPM |-> 0]
  IN [pc |-> "setup", g |-> g, snapshot |-> snapshot, g0 |-> g, snapshot0 |-> snapshot,
      frames |-> << >>]

RtAtRest == rt = NoRt

\* the functions checked on their own have not been called
UnitsAtRest ==
  /\ HdrAtRest
  /\ PcdAtRest
  /\ DecAtRest
  /\ GtAtRest
  /\ TxtAtRest
  /\ SuAtRest
  /\ SdtAtRest
  /\ RtAtRest

InitProgram ==
  /\ apc = "setup"
  /\ caller = "none"
  /\ g_bInDeepSleep = FALSE
  /\ timerActive = FALSE
  /\ timerLeft = 0
  /\ g_IgnitionKeyPosition = IgnOff
  /\ g_Gear = 0
  /\ g_CurrentCarData = NoCarData
  /\ semHolder = "none"
  /\ task = "none"
  /\ sn65 = "off"
  /\ mcp = "config"
  /\ hsTx = FALSE
  /\ unanswered = 0
  /\ dsDelay = 0
  /\ dsLog = << >>
  /\ sawDriveMode = FALSE
  /\ ignSeen = "none"
  /\ dpc = "none"
  /\ carData = NoCarData
  /\ currentFrame = 0
  /\ delayShort = FALSE
  /\ currentRadioFrame = 0
  /\ numRadioFrames = 0
  /\ dWait = 0
  /\ stepTx = -1
  /\ stepRx = "none"
  /\ recovEq = FALSE
  /\ recovGe = FALSE
  /\ emptyTurns = 0
  /\ nameTimerRestarted = FALSE

Init == InitProgram /\ UnitsAtRest

-----------------------------------------------------------------------------
(* setup(): reboot after deep sleep, then wait for the car to turn on *)

\* fault: setup clears g_bInDeepSleep and carries on without restarting
ClearWithoutRestart ==
  /\ apc = "setup"
  /\ IF g_bInDeepSleep
     THEN /\ g_bInDeepSleep' = FALSE
          /\ apc' = "WaitForCarToTurnOn"
          /\ UNCHANGED <<caller, timerActive, timerLeft, sn65, mcp, hsTx,
                         unanswered, dsDelay, dsLog, sawDriveMode, ignSeen, dataVars, dispVars,
                         emptyTurns, nameTimerRestarted>>
     ELSE /\ apc' = "WaitForCarToTurnOn"
          /\ UNCHANGED <<caller, g_bInDeepSleep, timerActive, timerLeft, sn65, mcp, hsTx,
                         unanswered, dsDelay, dsLog, sawDriveMode, ignSeen, dataVars, dispVars,
                         emptyTurns, nameTimerRestarted>>
  /\ UNCHANGED unitVars

\* setup, first statement: a wake from deep sleep restarts the device once
RebootAfterDeepSleep ==
  /\ apc = "setup"
  /\ IF g_bInDeepSleep
     THEN /\ g_bInDeepSleep' = FALSE
          /\ RamReset
          /\ UNCHANGED mcp
     ELSE /\ apc' = "WaitForCarToTurnOn"
          /\ UNCHANGED <<caller, g_bInDeepSleep, timerActive, timerLeft, sn65, mcp, hsTx,
                         unanswered, dsDelay, dsLog, sawDriveMode, ignSeen, dataVars, dispVars,
                         emptyTurns, nameTimerRestarted>>
  /\ UNCHANGED unitVars

\* WaitForCarToTurnOn: timer start; ReceviedAnyCANFrame: listen-only mode
WaitForCarToTurnOn ==
  /\ apc = "WaitForCarToTurnOn"
  /\ timerActive' = TRUE
  /\ timerLeft' = ProbeWindowTicks
  /\ sn65' = "listen"
  /\ apc' = "ReceviedAnyCANFrame"
  /\ UNCHANGED <<caller, g_bInDeepSleep, mcp, hsTx, unanswered, dsDelay, dsLog,
                 sawDriveMode, ignSeen, dataVars, dispVars>>
  /\ UNCHANGED <<emptyTurns, nameTimerRestarted, unitVars>>

\* fault: the result of the probe is ignored
ProbeResultIgnored(found) == "CarIgnitionOn"

\* WaitForCarToTurnOn: if (!ReceviedAnyCANFrame()) DeepSleep();
AfterReceviedAnyCANFrame(found) == IF found THEN "CarIgnitionOn" ELSE "DeepSleep"

\* ReceviedAnyCANFrame: one turn of the outer while loop
ReceviedAnyCANFrame ==
  /\ apc = "ReceviedAnyCANFrame"
  /\ IF timerActive /\ ~RanOut
     THEN \E batch \in Batches :
            /\ sawDriveMode' = (sawDriveMode \/
                  \E k \in DOMAIN batch : batch[k].id = "DriveMode" /\ batch[k].dlc = 8)
            /\ IF ScanForDriveMode(batch, 1)
               THEN /\ apc' = AfterReceviedAnyCANFrame(TRUE)
                    /\ caller' = "WaitForCarToTurnOn"
                    /\ UNCHANGED timerLeft
               ELSE /\ timerLeft' = AfterDelay(timerLeft, ProbeDelayTicks)
                    /\ UNCHANGED <<apc, caller>>
     ELSE /\ apc' = AfterReceviedAnyCANFrame(FALSE)
          /\ UNCHANGED <<caller, timerLeft, sawDriveMode>>
  /\ UNCHANGED <<g_bInDeepSleep, timerActive, sn65, mcp, hsTx, unanswered, dsDelay, dsLog,
                 ignSeen, dataVars, dispVars>>
  /\ UNCHANGED <<emptyTurns, nameTimerRestarted, unitVars>>

\* fault: DeepSleep whatever CarIgnitionOn returned
AlwaysDeepSleep(from, on) == "DeepSleep"

\* WaitForCarToTurnOn / CheckIfCarIsStillOn: if (!CarIgnitionOn()) DeepSleep();
\* otherwise the caller goes on: setup continues, or loop() starts over
AfterCarIgnitionOn(from, on) ==
  IF ~on THEN "DeepSleep"
  ELSE IF from = "WaitForCarToTurnOn" THEN "SetupCollectCarData"
  ELSE "SendOBD2Requests"

\* the caller's part after CarIgnitionOn returned: DeepSleep, or
\* timerWaitBeforeGoingIntoDeepSleep.Stop()
ReturnFromCarIgnitionOn(on) ==
  /\ apc' = AfterCarIgnitionOn(caller, on)
  /\ timerActive' = IF on THEN FALSE ELSE timerActive
  /\ timerLeft' = IF on THEN 0 ELSE timerLeft
  /\ caller' = "none"

\* CarIgnitionOn up to its while loop
CarIgnitionOn ==
  /\ apc = "CarIgnitionOn"
  /\ IF IgnitionIsOn(g_IgnitionKeyPosition)
     THEN /\ ReturnFromCarIgnitionOn(TRUE)
          /\ UNCHANGED <<sn65, hsTx, unanswered>>
     ELSE /\ sn65' = "normal"
          /\ hsTx' = TRUE
          /\ unanswered' = Min(unanswered + 1, MaxUnanswered)
          /\ apc' = "CarIgnitionOn_poll"
          /\ UNCHANGED <<caller, timerActive, timerLeft>>
  /\ UNCHANGED <<g_bInDeepSleep, mcp, dsDelay, dsLog, sawDriveMode, ignSeen,
                 dataVars, dispVars>>
  /\ UNCHANGED <<emptyTurns, nameTimerRestarted, unitVars>>

\* CarIgnitionOn: one turn of the outer while loop
CarIgnitionOn_poll ==
  /\ apc = "CarIgnitionOn_poll"
  /\ IF timerActive /\ ~RanOut
     THEN \E batch \in Batches :
            LET i == ScanForIgnition(batch, 1)
                resp == { k \in DOMAIN batch : batch[k].id \in {"ECM", "BCM"}
                                               /\ batch[k].pid = PID_IgnitionKeyPosition }
                first == CHOOSE k \in resp : \A j \in resp : k <= j
            IN
            /\ ignSeen' = IF caller = "WaitForCarToTurnOn" /\ resp # {}
                          THEN (IF batch[first].d4 = IgnOff THEN "Off" ELSE "OnOrStart")
                          ELSE ignSeen
            /\ IF i > 0
               THEN /\ g_IgnitionKeyPosition' = CalcIgnitionKeyPosition(batch[i])
                    /\ unanswered' = 0
                    /\ ReturnFromCarIgnitionOn(IgnitionIsOn(CalcIgnitionKeyPosition(batch[i])))
               ELSE /\ timerLeft' = AfterDelay(timerLeft, VerifyDelayTicks)
                    /\ UNCHANGED <<apc, caller, timerActive, g_IgnitionKeyPosition, unanswered>>
     ELSE /\ ReturnFromCarIgnitionOn(FALSE)
          /\ UNCHANGED <<g_IgnitionKeyPosition, unanswered, ignSeen>>
  /\ UNCHANGED <<g_bInDeepSleep, sn65, mcp, hsTx, dsDelay, dsLog, sawDriveMode,
                 g_Gear, g_CurrentCarData, semHolder, task, dispVars>>
  /\ UNCHANGED <<emptyTurns, nameTimerRestarted, unitVars>>

-----------------------------------------------------------------------------
(* setup(): the rest, reached when WaitForCarToTurnOn returns *)

\* SetupCollectCarData: clear the snapshot, normal mode, start the request
\* timers, send the low-frequency requests (one of them the ignition request)
SetupCollectCarData ==
  /\ apc = "SetupCollectCarData"
  /\ g_CurrentCarData' = NoCarData
  /\ sn65' = "normal"
  /\ hsTx' = TRUE
  /\ unanswered' = Min(unanswered + 1, MaxUnanswered)
  /\ apc' = "SetupDisplayInfoOnDashboard"
  /\ UNCHANGED <<caller, g_bInDeepSleep, timerActive, timerLeft, mcp, dsDelay, dsLog,
                 sawDriveMode, ignSeen, g_IgnitionKeyPosition, g_Gear, semHolder, task,
                 dispVars>>
  /\ UNCHANGED <<emptyTurns, nameTimerRestarted, unitVars>>

\* SetupDisplayInfoOnDashboard: while (CAN.begin(...) != OK) delay(1000);
SetupDisplayInfoOnDashboard ==
  /\ apc = "SetupDisplayInfoOnDashboard"
  /\ \E ok \in BOOLEAN :
       IF ok
       THEN /\ mcp' = "normal"
            /\ apc' = "xTaskCreatePinnedToCore"
       ELSE UNCHANGED <<mcp, apc>>
  /\ UNCHANGED <<caller, g_bInDeepSleep, timerActive, timerLeft, sn65, hsTx, unanswered,
                 dsDelay, dsLog, sawDriveMode, ignSeen, dataVars, dispVars>>
  /\ UNCHANGED <<emptyTurns, nameTimerRestarted, unitVars>>

\* setup: the semaphore is created and given, the display task is created
xTaskCreatePinnedToCore ==
  /\ apc = "xTaskCreatePinnedToCore"
  /\ semHolder' = "free"
  /\ task' = "running"
  /\ dpc' = "DisplayInfoOnDashboard"
  /\ apc' = "SendOBD2Requests"
  /\ UNCHANGED <<caller, g_bInDeepSleep, timerActive, timerLeft, sn65, mcp, hsTx, unanswered,
                 dsDelay, dsLog, sawDriveMode, ignSeen, g_IgnitionKeyPosition, g_Gear,
                 g_CurrentCarData, carData, currentFrame, delayShort, currentRadioFrame,
                 numRadioFrames, dWait, stepTx, stepRx, recovEq, recovGe>>
  /\ UNCHANGED <<emptyTurns, nameTimerRestarted, unitVars>>

-----------------------------------------------------------------------------
(* loop(): CollectCarData(); CheckIfCarIsStillOn(); *)

\* SendOBD2Requests: each request timer has run out or not; the low-frequency
\* timer (1 s) sends the ignition request
SendOBD2Requests ==
  /\ apc = "SendOBD2Requests"
  /\ \E lowRanOut \in BOOLEAN :
       unanswered' = IF lowRanOut THEN Min(unanswered + 1, MaxUnanswered) ELSE unanswered
  /\ apc' = "ProcessReceivedCANFrames"
  /\ UNCHANGED <<caller, g_bInDeepSleep, timerActive, timerLeft, sn65, mcp, hsTx,
                 dsDelay, dsLog, sawDriveMode, ignSeen, dataVars, dispVars>>
  /\ UNCHANGED <<emptyTurns, nameTimerRestarted, unitVars>>

\* ProcessReceivedCANFrames: the non-blocking drain
ProcessReceivedCANFrames ==
  /\ apc = "ProcessReceivedCANFrames"
  /\ \E batch \in Batches :
       LET g == RouteFrames(batch, 1, [ign |-> g_IgnitionKeyPosition, gear |-> g_Gear,
                                       ignRead |-> FALSE])
       IN /\ g_IgnitionKeyPosition' = g.ign
          /\ g_Gear' = g.gear
          /\ unanswered' = IF g.ignRead THEN 0 ELSE unanswered
  /\ apc' = "prc_take"
  /\ UNCHANGED <<caller, g_bInDeepSleep, timerActive, timerLeft, sn65, mcp, hsTx,
                 dsDelay, dsLog, sawDriveMode, ignSeen, g_CurrentCarData, semHolder, task,
                 dispVars>>
  /\ UNCHANGED <<emptyTurns, nameTimerRestarted, unitVars>>

\* fault: a take that does not wait
TakeWithoutWaiting == TRUE

\* xSemaphoreTake(g_SemaphoreCarData, portMAX_DELAY): blocks until it is free
SemaphoreFree == semHolder = "free"

\* ProcessReceivedCANFrames: xSemaphoreTake
prc_take ==
  /\ apc = "prc_take"
  /\ SemaphoreFree
  /\ semHolder' = "main"
  /\ apc' = "prc_Gear"
  /\ UNCHANGED <<caller, g_bInDeepSleep, timerActive, timerLeft, sn65, mcp, hsTx, unanswered,
                 dsDelay, dsLog, sawDriveMode, ignSeen, g_IgnitionKeyPosition, g_Gear,
                 g_CurrentCarData, task, dispVars>>
  /\ UNCHANGED <<emptyTurns, nameTimerRestarted, unitVars>>

\* ProcessReceivedCANFrames: g_CurrentCarData.Gear = g_Gear (the first field;
\* the telemetry fields that follow are written the same way)
prc_Gear ==
  /\ apc = "prc_Gear"
  /\ g_CurrentCarData' = [g_CurrentCarData EXCEPT !.Gear = g_Gear]
  /\ apc' = "prc_bCarTurnedOn"
  /\ UNCHANGED <<caller, g_bInDeepSleep, timerActive, timerLeft, sn65, mcp, hsTx, unanswered,
                 dsDelay, dsLog, sawDriveMode, ignSeen, g_IgnitionKeyPosition, g_Gear,
                 semHolder, task, dispVars>>
  /\ UNCHANGED <<emptyTurns, nameTimerRestarted, unitVars>>

\* ProcessReceivedCANFrames: g_CurrentCarData.bCarTurnedOn = ... (the last field)
prc_bCarTurnedOn ==
  /\ apc = "prc_bCarTurnedOn"
  /\ g_CurrentCarData' = [g_CurrentCarData EXCEPT
                            !.bCarTurnedOn = IgnitionIsOn(g_IgnitionKeyPosition)]
  /\ apc' = "prc_give"
  /\ UNCHANGED <<caller, g_bInDeepSleep, timerActive, timerLeft, sn65, mcp, hsTx, unanswered,
                 dsDelay, dsLog, sawDriveMode, ignSeen, g_IgnitionKeyPosition, g_Gear,
                 semHolder, task, dispVars>>
  /\ UNCHANGED <<emptyTurns, nameTimerRestarted, unitVars>>

\* ProcessReceivedCANFrames: xSemaphoreGive
prc_give ==
  /\ apc = "prc_give"
  /\ semHolder' = "free"
  /\ apc' = "CheckIfCarIsStillOn"
  /\ UNCHANGED <<caller, g_bInDeepSleep, timerActive, timerLeft, sn65, mcp, hsTx, unanswered,
                 dsDelay, dsLog, sawDriveMode, ignSeen, g_IgnitionKeyPosition, g_Gear,
                 g_CurrentCarData, task, dispVars>>
  /\ UNCHANGED <<emptyTurns, nameTimerRestarted, unitVars>>

\* fault: CheckIfCarIsStillOn without the timer start
CheckWithoutTimerStart ==
  /\ apc = "CheckIfCarIsStillOn"
  /\ caller' = "CheckIfCarIsStillOn"
  /\ apc' = "CarIgnitionOn"
  /\ UNCHANGED <<g_bInDeepSleep, timerActive, timerLeft, sn65, mcp, hsTx, unanswered, dsDelay,
                 dsLog, sawDriveMode, ignSeen, dataVars, dispVars>>
  /\ UNCHANGED <<emptyTurns, nameTimerRestarted, unitVars>>

\* CheckIfCarIsStillOn: timer start, then CarIgnitionOn
CheckIfCarIsStillOn ==
  /\ apc = "CheckIfCarIsStillOn"
  /\ timerActive' = TRUE
  /\ timerLeft' = ProbeWindowTicks
  /\ caller' = "CheckIfCarIsStillOn"
  /\ apc' = "CarIgnitionOn"
  /\ UNCHANGED <<g_bInDeepSleep, sn65, mcp, hsTx, unanswered, dsDelay, dsLog,
                 sawDriveMode, ignSeen, dataVars, dispVars>>
  /\ UNCHANGED <<emptyTurns, nameTimerRestarted, unitVars>>

-----------------------------------------------------------------------------
(* DeepSleep() *)

DisplayTickMs == 5    \* display-side time unit: the 5 ms DelayTimeBetweenFrames is shortened by

DeepSleepDelayTicks == DeepSleepDelayMs \div DisplayTickMs

\* fault: the low-speed controller is put to sleep before the task is suspended
ControllerSleepsFirst(p, hasTask) ==
  CASE p = "DeepSleep"  -> IF hasTask THEN "ds_take" ELSE "ds_sleep"
    [] p = "ds_take"    -> "ds_flag"
    [] p = "ds_flag"    -> "ds_give"
    [] p = "ds_give"    -> "ds_delay"
    [] p = "ds_delay"   -> "ds_SleepMCP2515"
    [] p = "ds_SleepMCP2515" -> "ds_suspend"
    [] p = "ds_suspend" -> "ds_delete"
    [] p = "ds_delete"  -> "ds_sleep"
    [] p = "ds_sleep"   -> "asleep"

\* DeepSleep: the order of its statements; hasTask is if (g_TaskDisplayInfoOnDashboard)
DeepSleepStep(p, hasTask) ==
  CASE p = "DeepSleep"  -> IF hasTask THEN "ds_take" ELSE "ds_sleep"
    [] p = "ds_take"    -> "ds_flag"
    [] p = "ds_flag"    -> "ds_give"
    [] p = "ds_give"    -> "ds_delay"
    [] p = "ds_delay"   -> "ds_suspend"
    [] p = "ds_suspend" -> "ds_SleepMCP2515"
    [] p = "ds_SleepMCP2515" -> "ds_delete"
    [] p = "ds_delete"  -> "ds_sleep"
    [] p = "ds_sleep"   -> "asleep"

\* DeepSleep: ListenOnlyMode_SN65HVD230(); if (g_TaskDisplayInfoOnDashboard).
\* DeepSleep does not return: the timer and the request count are not read
\* again before the reset, and the model drops their values here
DeepSleep ==
  /\ apc = "DeepSleep"
  /\ sn65' = "listen"
  /\ dsLog' = << <<"ListenOnlyMode", 0>> >>
  /\ apc' = DeepSleepStep(apc, task # "none")
  /\ timerActive' = FALSE
  /\ timerLeft' = 0
  /\ unanswered' = 0
  /\ UNCHANGED <<caller, g_bInDeepSleep, mcp, hsTx,
                 dsDelay, sawDriveMode, ignSeen, dataVars, dispVars>>
  /\ UNCHANGED <<emptyTurns, nameTimerRestarted, unitVars>>

\* DeepSleep: xSemaphoreTake
ds_take ==
  /\ apc = "ds_take"
  /\ SemaphoreFree
  /\ semHolder' = "main"
  /\ apc' = DeepSleepStep(apc, TRUE)
  /\ UNCHANGED <<caller, g_bInDeepSleep, timerActive, timerLeft, sn65, mcp, hsTx, unanswered,
                 dsDelay, dsLog, sawDriveMode, ignSeen, g_IgnitionKeyPosition, g_Gear,
                 g_CurrentCarData, task, dispVars>>
  /\ UNCHANGED <<emptyTurns, nameTimerRestarted, unitVars>>

\* DeepSleep: g_CurrentCarData.bCarTurnedOn = false
ds_flag ==
  /\ apc = "ds_flag"
  /\ g_CurrentCarData' = [g_CurrentCarData EXCEPT !.bCarTurnedOn = FALSE]
  /\ dsLog' = Append(dsLog, <<"bCarTurnedOn=false", IF semHolder = "main" THEN 1 ELSE 0>>)
  /\ apc' = DeepSleepStep(apc, TRUE)
  /\ UNCHANGED <<caller, g_bInDeepSleep, timerActive, timerLeft, sn65, mcp, hsTx, unanswered,
                 dsDelay, sawDriveMode, ignSeen, g_IgnitionKeyPosition, g_Gear,
                 semHolder, task, dispVars>>
  /\ UNCHANGED <<emptyTurns, nameTimerRestarted, unitVars>>

\* DeepSleep: xSemaphoreGive; delay(500) starts
ds_give ==
  /\ apc = "ds_give"
  /\ semHolder' = "free"
  /\ dsDelay' = DeepSleepDelayTicks
  /\ emptyTurns' = 0      \* dsDelay counts the time from here on
  /\ apc' = DeepSleepStep(apc, TRUE)
  /\ UNCHANGED <<caller, g_bInDeepSleep, timerActive, timerLeft, sn65, mcp, hsTx, unanswered,
                 dsLog, sawDriveMode, ignSeen, g_IgnitionKeyPosition, g_Gear,
                 g_CurrentCarData, task, dispVars>>
  /\ UNCHANGED <<nameTimerRestarted, unitVars>>

\* DeepSleep: delay(500) is over
ds_delay ==
  /\ apc = "ds_delay"
  /\ dsDelay = 0
  /\ apc' = DeepSleepStep(apc, TRUE)
  /\ UNCHANGED <<caller, g_bInDeepSleep, timerActive, timerLeft, sn65, mcp, hsTx, unanswered,
                 dsDelay, dsLog, sawDriveMode, ignSeen, dataVars, dispVars>>
  /\ UNCHANGED <<emptyTurns, nameTimerRestarted, unitVars>>

\* DeepSleep: vTaskSuspend(g_TaskDisplayInfoOnDashboard)
ds_suspend ==
  /\ apc = "ds_suspend"
  /\ task' = "suspended"
  /\ dsLog' = Append(dsLog, <<"vTaskSuspend", 0>>)
  /\ apc' = DeepSleepStep(apc, TRUE)
  /\ UNCHANGED <<caller, g_bInDeepSleep, timerActive, timerLeft, sn65, mcp, hsTx, unanswered,
                 dsDelay, sawDriveMode, ignSeen, g_IgnitionKeyPosition, g_Gear,
                 g_CurrentCarData, semHolder, dispVars>>
  /\ UNCHANGED <<emptyTurns, nameTimerRestarted, unitVars>>

\* DeepSleep: SleepMCP2515()
ds_SleepMCP2515 ==
  /\ apc = "ds_SleepMCP2515"
  /\ mcp' = "sleep"
  /\ dsLog' = Append(dsLog, <<"SleepMCP2515", 0>>)
  /\ apc' = DeepSleepStep(apc, TRUE)
  /\ UNCHANGED <<caller, g_bInDeepSleep, timerActive, timerLeft, sn65, hsTx, unanswered,
                 dsDelay, sawDriveMode, ignSeen, dataVars, dispVars>>
  /\ UNCHANGED <<emptyTurns, nameTimerRestarted, unitVars>>

\* DeepSleep: vTaskDelete(g_TaskDisplayInfoOnDashboard); handle = nullptr
ds_delete ==
  /\ apc = "ds_delete"
  /\ task' = "deleted"
  /\ dsLog' = Append(dsLog, <<"vTaskDelete", 0>>)
  /\ apc' = DeepSleepStep(apc, TRUE)
  /\ UNCHANGED <<caller, g_bInDeepSleep, timerActive, timerLeft, sn65, mcp, hsTx, unanswered,
                 dsDelay, sawDriveMode, ignSeen, g_IgnitionKeyPosition, g_Gear,
                 g_CurrentCarData, semHolder, dispVars>>
  /\ UNCHANGED <<emptyTurns, nameTimerRestarted, unitVars>>

\* DeepSleep: g_bInDeepSleep = true; esp_sleep_enable_timer_wakeup(DeepSleepTime);
\* esp_deep_sleep_start()
ds_sleep ==
  /\ apc = "ds_sleep"
  /\ g_bInDeepSleep' = TRUE
  /\ dsLog' = Append(dsLog, <<"esp_deep_sleep_start", DeepSleepTimeSec>>)
  /\ apc' = DeepSleepStep(apc, TRUE)
  /\ UNCHANGED <<caller, timerActive, timerLeft, sn65, mcp, hsTx, unanswered,
                 dsDelay, sawDriveMode, ignSeen, dataVars, dispVars>>
  /\ UNCHANGED <<emptyTurns, nameTimerRestarted, unitVars>>

\* the wake timer fires: the chip resets, RTC memory (g_bInDeepSleep) is kept
Wake ==
  /\ apc = "asleep"
  /\ RamReset
  /\ UNCHANGED <<g_bInDeepSleep, mcp>>
  /\ UNCHANGED unitVars

-----------------------------------------------------------------------------
(* The display protocol: frames of the low-speed bus *)

MaxRadioFrames == 3   \* radio frames read have a frame count of 1..MaxRadioFrames

NumCharsInText == 24
NumUTFCharsPerFrame == 3
NumFramesToDisplayText == NumCharsInText \div NumUTFCharsPerFrame
TimeToDisplayText == 1000 \div 5
DelayTimeBetweenFrames == TimeToDisplayText \div NumFramesToDisplayText
InfoCode == 5         \* 0x05 - Aux
InfoCodeFM == 2       \* 0x02 - FM radio

\* bytes 0 and 1 of a display-text frame, as the radio sends them
RadioBytes(total, index, code) ==
  [b0 |-> ((total - 1) * 8) + (index \div 4), b1 |-> ((index % 4) * 64) + code]

RadioFrames ==
  { RadioBytes(n, i, c) : n \in 1..MaxRadioFrames, i \in 0..(MaxRadioFrames - 1),
                          c \in {InfoCode, InfoCodeFM} }

\* GetCurrentRadioFrame: byte[0] bit[2..0] and byte[1] bit[7..6]
GetCurrentRadioFrame(pData) == ((pData.b0 % 8) * 4) + (pData.b1 \div 64)

\* GetNumRadioFrames: (byte[0] >> 3) + 1
GetNumRadioFrames(pData) == (pData.b0 \div 8) + 1

\* GetRadioInfoCode: byte[1] bit[5..0]
GetRadioInfoCode(pData) == pData.b1 % 64

\* fault: the inner while loop is never entered
NoWaitForLastRadioFrame(cur, num) == FALSE

\* SetDashboardText: while (currentRadioFrame < (numRadioFrames - 1))
WaitForLastRadioFrame(cur, num) == cur < num - 1

\* SetDashboardText: if (currentRadioFrame == 1) send the own first frame
InterruptRadio(cur) == cur = 1

\* fault: the delay between two frames is never shortened
NormalDelayTicks(short) == DelayTimeBetweenFrames \div DisplayTickMs

\* delay(delayTimeBetweenFrames), in display ticks
FrameDelayTicks(short) ==
  IF short THEN (DelayTimeBetweenFrames - 5) \div DisplayTickMs
  ELSE DelayTimeBetweenFrames \div DisplayTickMs

\* time may pass on the display side unless DeepSleep's delay is already over
TimeMayPass == ~(apc = "ds_delay" /\ dsDelay = 0)

\* history: the frame a step read is a competing frame (info code different
\* from the own InfoCode) with frame index 1, another frame, or nothing
StepRead(rx) ==
  IF rx = NoFrame THEN "none"
  ELSE IF (rx.b1 % 64) # InfoCode /\ ((rx.b0 % 8) * 4) + (rx.b1 \div 64) = 1 THEN "competing1"
  ELSE "other"

\* history of the collision recovery after a radio frame was read
RecovEqAfter(rx) ==
  LET cur == ((rx.b0 % 8) * 4) + (rx.b1 \div 64)
      num == (rx.b0 \div 8) + 1
      competing == (rx.b1 % 64) # InfoCode
  IN IF competing /\ cur = num - 1 THEN FALSE
     ELSE IF competing /\ cur = 1 THEN TRUE
     ELSE recovEq

RecovGeAfter(rx) ==
  LET cur == ((rx.b0 % 8) * 4) + (rx.b1 \div 64)
      num == (rx.b0 \div 8) + 1
      competing == (rx.b1 % 64) # InfoCode
  IN IF cur >= num - 1 THEN FALSE
     ELSE IF competing /\ cur = 1 THEN TRUE
     ELSE recovGe

-----------------------------------------------------------------------------
(* The display context: task DisplayInfoOnDashboard *)

\* DisplayInfoOnDashboard before its loop: the toggle timers start
DisplayInfoOnDashboard ==
  /\ task = "running"
  /\ dpc = "DisplayInfoOnDashboard"
  /\ dpc' = "CopyCarData"
  /\ UNCHANGED <<powerVars, dataVars, carData, currentFrame, delayShort, currentRadioFrame,
                 numRadioFrames, dWait, stepTx, stepRx, recovEq, recovGe>>
  /\ UNCHANGED <<emptyTurns, nameTimerRestarted, unitVars>>

\* CopyCarData: xSemaphoreTake
CopyCarData ==
  /\ task = "running"
  /\ dpc = "CopyCarData"
  /\ SemaphoreFree
  /\ semHolder' = "disp"
  /\ dpc' = "copy_Gear"
  /\ UNCHANGED <<powerVars, g_IgnitionKeyPosition, g_Gear, g_CurrentCarData, task, carData,
                 currentFrame, delayShort, currentRadioFrame, numRadioFrames, dWait, stepTx,
                 stepRx, recovEq, recovGe>>
  /\ nameTimerRestarted' = FALSE
  /\ UNCHANGED <<emptyTurns, unitVars>>

\* CopyCarData: memcpy, the first field
copy_Gear ==
  /\ task = "running"
  /\ dpc = "copy_Gear"
  /\ carData' = [carData EXCEPT !.Gear = g_CurrentCarData.Gear]
  /\ dpc' = "copy_bCarTurnedOn"
  /\ UNCHANGED <<powerVars, dataVars, currentFrame, delayShort, currentRadioFrame,
                 numRadioFrames, dWait, stepTx, stepRx, recovEq, recovGe>>
  /\ UNCHANGED <<emptyTurns, nameTimerRestarted, unitVars>>

\* CopyCarData: memcpy, the last field
copy_bCarTurnedOn ==
  /\ task = "running"
  /\ dpc = "copy_bCarTurnedOn"
  /\ carData' = [carData EXCEPT !.bCarTurnedOn = g_CurrentCarData.bCarTurnedOn]
  /\ dpc' = "copy_give"
  /\ UNCHANGED <<powerVars, dataVars, currentFrame, delayShort, currentRadioFrame,
                 numRadioFrames, dWait, stepTx, stepRx, recovEq, recovGe>>
  /\ UNCHANGED <<emptyTurns, nameTimerRestarted, unitVars>>

\* fault: the task does not test carData.bCarTurnedOn
AlwaysTurnedOn(on) == "GenerateText"

\* DisplayInfoOnDashboard: if (carData.bCarTurnedOn)
AfterCopyCarData(on) == IF on THEN "GenerateText" ELSE "idle"

\* fault: CopyCarData returns without xSemaphoreGive
CopyWithoutGive ==
  /\ task = "running"
  /\ dpc = "copy_give"
  /\ dpc' = AfterCopyCarData(carData.bCarTurnedOn)
  /\ UNCHANGED <<powerVars, dataVars, carData, currentFrame, delayShort, currentRadioFrame,
                 numRadioFrames, dWait, stepTx, stepRx, recovEq, recovGe>>
  /\ UNCHANGED <<emptyTurns, nameTimerRestarted, unitVars>>

\* CopyCarData: xSemaphoreGive; then the branch on carData.bCarTurnedOn
copy_give ==
  /\ task = "running"
  /\ dpc = "copy_give"
  /\ semHolder' = "free"
  /\ dpc' = AfterCopyCarData(carData.bCarTurnedOn)
  /\ UNCHANGED <<powerVars, g_IgnitionKeyPosition, g_Gear, g_CurrentCarData, task, carData,
                 currentFrame, delayShort, currentRadioFrame, numRadioFrames, dWait, stepTx,
                 stepRx, recovEq, recovGe>>
  /\ UNCHANGED <<emptyTurns, nameTimerRestarted, unitVars>>

\* ProcessCarData(); GenerateText(text); SetDashboardText up to its for loop
GenerateText ==
  /\ task = "running"
  /\ dpc = "GenerateText"
  /\ currentFrame' = 0
  /\ delayShort' = FALSE
  /\ dpc' = "sdt_send"
  /\ UNCHANGED <<powerVars, dataVars, carData, currentRadioFrame, numRadioFrames, dWait,
                 stepTx, stepRx, recovEq, recovGe>>
  /\ UNCHANGED <<emptyTurns, nameTimerRestarted, unitVars>>

\* else branch: timerShowNameAndVersion.Start(); delay(TimeToDisplayText) starts
idle ==
  /\ task = "running"
  /\ dpc = "idle"
  /\ dWait' = TimeToDisplayText \div DisplayTickMs
  /\ dpc' = "idle_delay"
  /\ UNCHANGED <<powerVars, dataVars, carData, currentFrame, delayShort, currentRadioFrame,
                 numRadioFrames, stepTx, stepRx, recovEq, recovGe>>
  /\ nameTimerRestarted' = TRUE
  /\ UNCHANGED <<emptyTurns, unitVars>>

\* a delay of the display context elapses, up to the end of DeepSleep's delay
DelayElapse ==
  /\ task = "running"
  /\ dpc \in {"idle_delay", "sdt_delay"}
  /\ TimeMayPass
  /\ LET d == IF apc = "ds_delay" THEN Min(dWait, dsDelay) ELSE dWait IN
       /\ dWait' = dWait - d
       /\ dsDelay' = IF apc = "ds_delay" THEN dsDelay - d ELSE dsDelay
       /\ dpc' = IF dWait - d > 0 THEN dpc
                 ELSE IF dpc = "idle_delay" THEN "CopyCarData" ELSE "sdt_read"
  /\ UNCHANGED <<apc, caller, g_bInDeepSleep, timerActive, timerLeft, sn65, mcp, hsTx,
                 unanswered, dsLog, sawDriveMode, ignSeen, dataVars, carData, currentFrame,
                 delayShort, currentRadioFrame, numRadioFrames, stepTx, stepRx, recovEq,
                 recovGe>>
  /\ UNCHANGED <<emptyTurns, nameTimerRestarted, unitVars>>

\* SetDashboardText: SetDashboardTextCharacters(8, currentFrame, ...); delay starts
sdt_send ==
  /\ task = "running"
  /\ dpc = "sdt_send"
  /\ stepTx' = currentFrame
  /\ stepRx' = "none"
  /\ dWait' = FrameDelayTicks(delayShort)
  /\ dpc' = "sdt_delay"
  /\ UNCHANGED <<powerVars, dataVars, carData, currentFrame, delayShort, currentRadioFrame,
                 numRadioFrames, recovEq, recovGe>>
  /\ UNCHANGED <<emptyTurns, nameTimerRestarted, unitVars>>

\* SetDashboardText: the for loop's currentFrame++ and test
LastFrameSent == currentFrame + 1 >= NumFramesToDisplayText

\* SetDashboardText: no radio frame, or one with the own info code (continue):
\* the next frame is sent, or the call returns after the last one
Continue(rx) ==
  /\ currentFrame' = IF LastFrameSent THEN 0 ELSE currentFrame + 1
  /\ delayShort' = IF LastFrameSent THEN FALSE ELSE delayShort
  /\ dpc' = IF LastFrameSent THEN "CopyCarData" ELSE "sdt_send"
  /\ stepTx' = -1
  /\ stepRx' = IF LastFrameSent THEN "none" ELSE StepRead(rx)
  /\ recovEq' = IF LastFrameSent THEN FALSE
                ELSE IF rx = NoFrame THEN recovEq ELSE RecovEqAfter(rx)
  /\ recovGe' = IF LastFrameSent THEN FALSE
                ELSE IF rx = NoFrame THEN recovGe ELSE RecovGeAfter(rx)
  /\ UNCHANGED <<currentRadioFrame, numRadioFrames>>

\* SetDashboardText: a radio frame was read; the own first frame interrupts
\* radio frame 1; then wait for the last radio frame, or restart the loop
\* (currentFrame = -1, shortened delay, currentFrame++)
RadioFrameRead(rx) ==
  LET cur == GetCurrentRadioFrame(rx)
      num == GetNumRadioFrames(rx)
  IN /\ stepTx' = IF InterruptRadio(cur) THEN 0 ELSE -1
     /\ stepRx' = StepRead(rx)
     /\ recovEq' = RecovEqAfter(rx)
     /\ recovGe' = RecovGeAfter(rx)
     /\ IF WaitForLastRadioFrame(cur, num)
        THEN /\ dpc' = "sdt_wait"
             /\ currentRadioFrame' = cur
             /\ numRadioFrames' = num
             /\ UNCHANGED <<currentFrame, delayShort>>
        ELSE /\ dpc' = "sdt_send"
             /\ currentFrame' = 0
             /\ delayShort' = TRUE
             /\ currentRadioFrame' = 0
             /\ numRadioFrames' = 0

\* SetDashboardText: CAN.read after the delay
sdt_read ==
  /\ task = "running"
  /\ dpc = "sdt_read"
  /\ \E rx \in RadioFrames \cup {NoFrame} :
       IF rx = NoFrame THEN Continue(rx)
       ELSE IF GetRadioInfoCode(rx) = InfoCode THEN Continue(rx)
       ELSE RadioFrameRead(rx)
  /\ UNCHANGED <<powerVars, dataVars, carData, dWait>>
  /\ UNCHANGED <<emptyTurns, nameTimerRestarted, unitVars>>

\* SetDashboardText: one turn of the inner while loop; a turn that reads
\* nothing takes time, counted by DeepSleep's delay while that runs and by
\* emptyTurns otherwise
sdt_wait ==
  /\ task = "running"
  /\ dpc = "sdt_wait"
  /\ \E rx \in RadioFrames \cup {NoFrame} :
       IF rx = NoFrame
       THEN /\ TimeMayPass
            /\ dsDelay' = IF apc = "ds_delay" THEN dsDelay - 1 ELSE dsDelay
            /\ stepTx' = -1
            /\ stepRx' = "none"
            /\ emptyTurns' = IF apc = "ds_delay" THEN emptyTurns ELSE 1 - emptyTurns
            /\ UNCHANGED <<dpc, currentFrame, delayShort, currentRadioFrame, numRadioFrames,
                           recovEq, recovGe>>
       ELSE /\ RadioFrameRead(rx)
            /\ emptyTurns' = 0
            /\ UNCHANGED dsDelay
  /\ UNCHANGED <<apc, caller, g_bInDeepSleep, timerActive, timerLeft, sn65, mcp, hsTx,
                 unanswered, dsLog, sawDriveMode, ignSeen, dataVars, carData, dWait>>
  /\ UNCHANGED <<nameTimerRestarted, unitVars>>

-----------------------------------------------------------------------------

Next ==
  \/ RebootAfterDeepSleep
  \/ WaitForCarToTurnOn
  \/ ReceviedAnyCANFrame
  \/ CarIgnitionOn
  \/ CarIgnitionOn_poll
  \/ SetupCollectCarData
  \/ SetupDisplayInfoOnDashboard
  \/ xTaskCreatePinnedToCore
  \/ SendOBD2Requests
  \/ ProcessReceivedCANFrames
  \/ prc_take
  \/ prc_Gear
  \/ prc_bCarTurnedOn
  \/ prc_give
  \/ CheckIfCarIsStillOn
  \/ DeepSleep
  \/ ds_take
  \/ ds_flag
  \/ ds_give
  \/ ds_delay
  \/ ds_suspend
  \/ ds_SleepMCP2515
  \/ ds_delete
  \/ ds_sleep
  \/ Wake
  \/ DisplayInfoOnDashboard
  \/ CopyCarData
  \/ copy_Gear
  \/ copy_bCarTurnedOn
  \/ copy_give
  \/ GenerateText
  \/ idle
  \/ DelayElapse
  \/ sdt_send
  \/ sdt_read
  \/ sdt_wait

Spec == Init /\ [][Next]_vars

-----------------------------------------------------------------------------
(* Power state machine: WaitForCarToTurnOn *)

\* ReceviedAnyCANFrame has returned
ProbeOver == apc \notin {"setup", "WaitForCarToTurnOn", "ReceviedAnyCANFrame"}

\* WaitForCarToTurnOn has returned or has called DeepSleep
WaitOver == ProbeOver /\ caller # "WaitForCarToTurnOn"

\* DeepSleep when no display task exists
BootSleepPath == {"DeepSleep", "ds_sleep", "asleep"}

\* the rest of setup, between WaitForCarToTurnOn and the task creation
SetupRest == {"SetupCollectCarData", "SetupDisplayInfoOnDashboard", "xTaskCreatePinnedToCore"}

\* C1: when the probe window ends and no 8-byte drive-mode frame was read,
\* WaitForCarToTurnOn calls DeepSleep; no frame has been transmitted on the
\* high-speed bus (the transceiver never left listen-only mode) and no display
\* task exists.
C1_NoTrafficSleeps ==
  (ProbeOver /\ ~sawDriveMode) =>
     /\ apc \in BootSleepPath
     /\ ~hsTx
     /\ sn65 = "listen"
     /\ task = "none"

C1_Witness == apc = "asleep" /\ ~sawDriveMode /\ g_bInDeepSleep /\ ~hsTx

\* C2: a drive-mode frame was seen, but the ignition response read Off or no
\* response was read before the timer ran out: WaitForCarToTurnOn calls
\* DeepSleep, and neither SetupCollectCarData nor the task creation is reached.
C2_NoIgnitionSleeps ==
  (WaitOver /\ sawDriveMode /\ ignSeen \in {"none", "Off"}) =>
     /\ apc \in BootSleepPath
     /\ task = "none"
     /\ mcp # "normal"

C2_Witness == apc = "asleep" /\ sawDriveMode /\ ignSeen = "Off" /\ hsTx /\ task = "none"

\* C3: a drive-mode frame was seen and the ignition response read On or Start:
\* WaitForCarToTurnOn returns without DeepSleep, and setup runs on to the
\* creation of the display task.
C3_IgnitionOnRuns ==
  (WaitOver /\ sawDriveMode /\ ignSeen = "OnOrStart") =>
     \/ apc \in SetupRest /\ task = "none" /\ dsLog = << >>
     \/ task # "none"

C3_Witness ==
  /\ apc = "SendOBD2Requests"
  /\ task = "running"
  /\ sawDriveMode /\ ignSeen = "OnOrStart"
  /\ dsLog = << >>

-----------------------------------------------------------------------------
(* Power state machine: the running state *)

\* positions of loop()
LoopPositions ==
  {"SendOBD2Requests", "ProcessReceivedCANFrames", "prc_take", "prc_Gear",
   "prc_bCarTurnedOn", "prc_give", "CheckIfCarIsStillOn", "CarIgnitionOn", "CarIgnitionOn_poll"}

Running == apc \in LoopPositions /\ task = "running"

\* one step of the acquisition context in loop(): CollectCarData is followed
\* by CheckIfCarIsStillOn, which starts the timer afresh; when the check
\* returns, an ignition position of Off has led to DeepSleep
C4_Step ==
  /\ (apc = "prc_give" /\ apc' # apc) => apc' = "CheckIfCarIsStillOn"
  /\ (apc = "CheckIfCarIsStillOn" /\ apc' # apc) =>
        /\ apc' = "CarIgnitionOn"
        /\ timerActive' /\ timerLeft' = ProbeWindowTicks
  /\ (apc' = "SendOBD2Requests" /\ apc # apc' /\ apc # "xTaskCreatePinnedToCore") =>
        /\ caller = "CheckIfCarIsStillOn"
        /\ g_IgnitionKeyPosition' # IgnOff
  /\ (caller = "CheckIfCarIsStillOn" /\ caller' = "none"
        /\ g_IgnitionKeyPosition' = IgnOff) => apc' = "DeepSleep"

\* C4: every iteration of loop() runs CheckIfCarIsStillOn with the timer
\* started afresh, and an ignition position of Off makes it call DeepSleep.
C4_LoopRechecksIgnition == [][C4_Step]_vars

C4_Witness ==
  /\ apc = "DeepSleep"
  /\ task = "running"
  /\ g_IgnitionKeyPosition = IgnOff
  /\ timerActive /\ timerLeft > 0

\* C5: no ignition response for longer than the probe budget leads to
\* DeepSleep: the device is not in loop() with ignition requests unanswered
\* for more than ProbeWindowMs.
C5_SilentBusSleeps ==
  Running => unanswered * LowFrequencyMs <= ProbeWindowMs

-----------------------------------------------------------------------------
(* DeepSleep: the order of its steps *)

\* the steps of DeepSleep when the display task exists
FullSleepOrder ==
  << <<"ListenOnlyMode", 0>>, <<"bCarTurnedOn=false", 1>>, <<"vTaskSuspend", 0>>,
     <<"SleepMCP2515", 0>>, <<"vTaskDelete", 0>>, <<"esp_deep_sleep_start", DeepSleepTimeSec>> >>

\* the steps of DeepSleep when no display task was created
ShortSleepOrder ==
  << <<"ListenOnlyMode", 0>>, <<"esp_deep_sleep_start", DeepSleepTimeSec>> >>

\* the steps the order is stated about
IsOrderedStep(e) ==
  e[1] \in {"bCarTurnedOn=false", "vTaskSuspend", "SleepMCP2515", "esp_deep_sleep_start"}

\* flag forced false under the lock, task halted, low-speed controller asleep,
\* deep-sleep call with the 12 s wake timer
ClaimedSleepOrder ==
  << <<"bCarTurnedOn=false", 1>>, <<"vTaskSuspend", 0>>, <<"SleepMCP2515", 0>>,
     <<"esp_deep_sleep_start", 12>> >>

\* C6 as stated: every entry into deep sleep has gone through all four steps
\* in order (flag false under the lock, task halted, low-speed controller
\* asleep, deep-sleep call with the 12 s timer).
C6_EverySleepFullOrder ==
  apc = "asleep" => SelectSeq(dsLog, IsOrderedStep) = ClaimedSleepOrder

\* C6: an entry into deep sleep with a display task has gone through all steps
\* in order (flag false under the lock, vTaskSuspend, SleepMCP2515,
\* vTaskDelete, deep-sleep call with the 12 s timer); an entry without a
\* display task (DeepSleep called from WaitForCarToTurnOn) goes from
\* listen-only mode straight to the deep-sleep call with the 12 s timer.
C6_SleepOrder ==
  /\ apc = "asleep" =>
       /\ dsLog = (IF task = "none" THEN ShortSleepOrder ELSE FullSleepOrder)
       /\ task \in {"none", "deleted"}
       /\ task = "deleted" => (mcp = "sleep" /\ ~g_CurrentCarData.bCarTurnedOn)
       /\ g_bInDeepSleep
  /\ apc \in {"DeepSleep", "ds_take", "ds_flag", "ds_give", "ds_delay", "ds_suspend",
              "ds_SleepMCP2515", "ds_delete", "ds_sleep"} =>
       \E n \in 0..Len(dsLog) :
          dsLog = SubSeq(IF task = "none" THEN ShortSleepOrder ELSE FullSleepOrder, 1, n)

C6_Witness ==
  /\ apc = "asleep"
  /\ task = "deleted"
  /\ SelectSeq(dsLog, IsOrderedStep) = ClaimedSleepOrder

-----------------------------------------------------------------------------
(* DeepSleep and the display context *)

\* positions of the display context inside SetDashboardText
InSetDashboardText == {"sdt_send", "sdt_delay", "sdt_read", "sdt_wait"}

\* C7: when the display task is suspended or deleted, no SetDashboardText call
\* is under way: every call that began has sent its last frame and returned.
C7_NoSequenceCutShort ==
  task \in {"suspended", "deleted"} => dpc \notin InSetDashboardText

-----------------------------------------------------------------------------
(* The shared snapshot and its semaphore *)

\* positions between xSemaphoreTake and xSemaphoreGive
MainCritical == {"prc_Gear", "prc_bCarTurnedOn", "prc_give", "ds_flag", "ds_give"}
DispCritical == {"copy_Gear", "copy_bCarTurnedOn", "copy_give"}

\* positions of the acquisition context after vTaskSuspend
AfterSuspend == {"ds_SleepMCP2515", "ds_delete", "ds_sleep", "asleep"}

\* C8: the local copy is the snapshot of one instant between complete writes:
\* no write of the acquisition context falls between the copy's first field
\* and its give, the fields copied so far equal the snapshot's, and the
\* finished copy equals the snapshot.
C8_CopyIsOneSnapshot ==
  /\ dpc \in DispCritical => apc \notin {"prc_bCarTurnedOn", "prc_give", "ds_give"}
  /\ dpc \in {"copy_bCarTurnedOn", "copy_give"} => carData.Gear = g_CurrentCarData.Gear
  /\ dpc = "copy_give" => carData = g_CurrentCarData

C8_Witness ==
  /\ dpc = "copy_give"
  /\ carData = [Gear |-> 1, bCarTurnedOn |-> TRUE]
  /\ apc = "prc_take"
  /\ g_Gear = 1
  /\ g_IgnitionKeyPosition = IgnOff

\* C9 as stated: every take is followed by a give in the same context: the
\* display task is never halted while it holds the semaphore.
C9_TakeAlwaysGiven == ~(semHolder = "disp" /\ task \in {"suspended", "deleted"})

\* C9: a context that holds the semaphore is between its take and its give,
\* where it only copies fields (no send, no read of a bus, no delay); the
\* contexts never hold it together; the one take that is not followed by a
\* give is that of a display task halted by vTaskSuspend inside CopyCarData,
\* and the acquisition context takes the semaphore no more after that.
C9_HeldOnlyWhileCopying ==
  /\ semHolder = "main" <=> apc \in MainCritical
  /\ semHolder = "disp" <=> dpc \in DispCritical
  /\ semHolder = "none" <=> task = "none"
  /\ (semHolder = "disp" /\ task # "running") => apc \in AfterSuspend
  /\ apc \in {"prc_take", "ds_take"} => task = "running"
  /\ dpc \in DispCritical \cup {"CopyCarData"} => dWait = 0

C9_Witness ==
  /\ semHolder = "disp"
  /\ dpc = "copy_bCarTurnedOn"
  /\ task = "running"
  /\ apc = "ds_take"

-----------------------------------------------------------------------------
(* SetDashboardText: collision recovery *)

C10_Step ==
  /\ stepRx' = "competing1" => stepTx' = 0
  /\ stepTx' > 0 => ~recovGe'
  /\ (recovGe /\ ~recovGe' /\ task' = "running") =>
        /\ dpc' = "sdt_send"
        /\ currentFrame' = 0
        /\ stepRx' # "none"
  /\ recovGe' => dpc' = "sdt_wait"

-----------------------------------------------------------------------------
(* The header of a display frame: SetDashboardTextCharacters on its own *)

NumFramesValues == 32     \* byte[0] bit[7..3] holds numFrames - 1
CurrentFrameValues == 32  \* byte[0] bit[2..0] and byte[1] bit[7..6] hold currentFrame
InfoCodeValues == 64      \* byte[1] bit[5..0] holds the info code

\* fault: the high bits of currentFrame are not written to byte[0]
HeaderWithoutHighBits(numFrames, frame, infoCode) ==
  [b0 |-> (((numFrames - 1) % 256) * 8) % 256,
   b1 |-> (infoCode % 64) + ((frame * 64) % 256)]

\* SetDashboardTextCharacters: canData[0] and canData[1] (uint8_t), with the
\* info code as a parameter; frame is the argument currentFrame
SetDashboardTextCharacters(numFrames, frame, infoCode) ==
  LET indexOfLastFrame == (numFrames - 1) % 256
      numBits == (indexOfLastFrame * 8) % 256          \* (indexOfLastFrame << 3) & 0b11111000
      codeBits == infoCode % 64                        \* InfoCode & 0b00111111
      highBits == (frame \div 4) % 8            \* (currentFrame >> 2) & 0b00000111
      lowBits == (frame * 64) % 256             \* (currentFrame << 6) & 0b11000000
  IN [b0 |-> numBits + highBits, b1 |-> codeBits + lowBits]

InitHeader ==
  /\ InitProgram
  /\ hdr \in [numFrames : 1..NumFramesValues, currentFrame : 0..(CurrentFrameValues - 1),
              infoCode : 0..(InfoCodeValues - 1), canData : {NoFrame}]
  /\ PcdAtRest
  /\ DecAtRest
  /\ GtAtRest
  /\ TxtAtRest
  /\ SuAtRest
  /\ SdtAtRest
  /\ RtAtRest

\* one call of SetDashboardTextCharacters
SendHeader ==
  /\ hdr.canData = NoFrame
  /\ hdr' = [hdr EXCEPT !.canData =
               SetDashboardTextCharacters(hdr.numFrames, hdr.currentFrame, hdr.infoCode)]
  /\ UNCHANGED <<powerVars, dataVars, dispVars, emptyTurns, nameTimerRestarted, pcd, dec, gt, txt, su, sdt, rt>>

NextHeader == SendHeader

SpecHeader == InitHeader /\ [][NextHeader]_vars

\* C12: the header written for a frame count of 1..32, a frame index of
\* 0..31 and an info code of 0..63 decodes to the same three values through
\* GetNumRadioFrames, GetCurrentRadioFrame and GetRadioInfoCode
C12_HeaderRoundTrip ==
  hdr.canData # NoFrame =>
    /\ GetNumRadioFrames(hdr.canData) = hdr.numFrames
    /\ GetCurrentRadioFrame(hdr.canData) = hdr.currentFrame
    /\ GetRadioInfoCode(hdr.canData) = hdr.infoCode

\* the largest value of every field has been written
C12_Witness ==
  /\ hdr.canData # NoFrame
  /\ hdr.numFrames = 32
  /\ hdr.currentFrame = 31
  /\ hdr.infoCode = 63

-----------------------------------------------------------------------------
(* The display task on its own: the acquisition context stands at the head  *)
(* of a turn of loop(), ignition On, the snapshot written or not yet        *)

InitDisplay ==
  /\ apc = "SendOBD2Requests"
  /\ caller = "none"
  /\ g_bInDeepSleep = FALSE
  /\ timerActive = FALSE
  /\ timerLeft = 0
  /\ g_IgnitionKeyPosition = IgnOn
  /\ g_Gear = 0
  /\ g_CurrentCarData \in {NoCarData, [NoCarData EXCEPT !.bCarTurnedOn = TRUE]}
  /\ semHolder = "free"
  /\ task = "running"
  /\ sn65 = "normal"
  /\ mcp = "normal"
  /\ hsTx = TRUE
  /\ unanswered = 1
  /\ dsDelay = 0
  /\ dsLog = << >>
  /\ sawDriveMode = TRUE
  /\ ignSeen = "OnOrStart"
  /\ dpc = "DisplayInfoOnDashboard"
  /\ carData = NoCarData
  /\ currentFrame = 0
  /\ delayShort = FALSE
  /\ currentRadioFrame = 0
  /\ numRadioFrames = 0
  /\ dWait = 0
  /\ stepTx = -1
  /\ stepRx = "none"
  /\ recovEq = FALSE
  /\ recovGe = FALSE
  /\ emptyTurns = 0
  /\ nameTimerRestarted = FALSE
  /\ UnitsAtRest

NextDisplay ==
  \/ DisplayInfoOnDashboard
  \/ CopyCarData
  \/ copy_Gear
  \/ copy_bCarTurnedOn
  \/ copy_give
  \/ GenerateText
  \/ idle
  \/ DelayElapse
  \/ sdt_send
  \/ sdt_read
  \/ sdt_wait

\* the task is the only one pinned to core 0: it runs whenever it can
SpecDisplay == InitDisplay /\ [][NextDisplay]_vars /\ WF_vars(NextDisplay)

\* the inner while loop of SetDashboardText is being executed
InRecoveryWait == dpc = "sdt_wait"

\* C11: the wait for the competitor's last frame always ends, also when that
\* frame never arrives
C11_RecoveryWaitEnds == InRecoveryWait ~> ~InRecoveryWait

-----------------------------------------------------------------------------
(* ProcessCarData on its own: boost, cold-engine RPM and the turbo cooldown. *)
(* Times are in ms; time passes between two calls in steps of the monitor   *)
(* window. turboBoostPsi and maxBoostPsi are in units of 1/PsiScale psi.    *)

MaxDelayTicks == 1      \* monitor windows that may pass between two calls

MonitorWindowMs == 5000
SquadraSafeOilTemperature == 70
TurboCooldownOilTemperature == 60
SpritedDrivingBoostPressure == 20
PsiScale == 10000000
MbarToPsi == 145038     \* 0.0145038 * PsiScale
MaxBoostPsi == 40

turboCooldownInfo ==
  << [EngineRPM |-> 4000, ExhaustGasTemp |-> 816, CooldownDuration |-> 180 * 1000],
     [EngineRPM |-> 3500, ExhaustGasTemp |-> 703, CooldownDuration |-> 60 * 1000],
     [EngineRPM |-> 2600, ExhaustGasTemp |-> 649, CooldownDuration |-> 30 * 1000],
     [EngineRPM |-> 2100, ExhaustGasTemp |-> 538, CooldownDuration |-> 0 * 1000] >>

MaxTurboCooldownDuration == turboCooldownInfo[1].CooldownDuration

\* what CopyCarData may hand to ProcessCarData
CarDataSamples ==
  { [EngineRPM |-> rpm, ExhaustGasTemp |-> egt, EngineOilTemp |-> oil,
     BoostPressure |-> pr[1], AtmosphericPressure |-> pr[2],
     Gear |-> IF rpm > 2000 THEN 3 ELSE 1] :
      rpm \in {800, 2700, 4100}, egt \in {500, 704}, oil \in {59, 90},
      pr \in {<<900, 1013>>, <<2500, 1013>>, <<4000, 0>>} }

\* AsyncTimer::Start(duration) and AsyncTimer::Start()
Started(duration) == [duration |-> duration, left |-> duration]

\* AsyncTimer: the time left after ms more milliseconds
Elapsed(left, ms) == Max(0, left - ms)

\* turboBoostPsi = _min(_max(0.0f, float(BoostPressure - AtmosphericPressure)) * 0.0145038f, 40.0f)
TurboBoostPsi(boostPressure, atmosphericPressure) ==
  Min(Max(0, boostPressure - atmosphericPressure) * MbarToPsi, MaxBoostPsi * PsiScale)

\* fault: the max boost is updated with every boost that differs from it
DiffersFromMax(psi, maxPsi) == psi # maxPsi

\* the first condition of the max-boost update: turboBoostPsi > maxBoostPsi
ExceedsMax(psi, maxPsi) == psi > maxPsi

\* fault: the max boost is updated without looking at the atmospheric pressure
AnyAtmosphericPressure(atmosphericPressure) == TRUE

\* the second condition of the max-boost update
ValidAtmosphericPressure(atmosphericPressure) == atmosphericPressure > 0

RECURSIVE SumOfDurations(_, _, _)
SumOfDurations(rpm, egt, i) ==
  IF i > Len(turboCooldownInfo) THEN 0
  ELSE (IF rpm > turboCooldownInfo[i].EngineRPM \/ egt > turboCooldownInfo[i].ExhaustGasTemp
        THEN turboCooldownInfo[i].CooldownDuration ELSE 0)
       + SumOfDurations(rpm, egt, i + 1)

\* fault: the loop goes on after a match and adds up the durations of all
\* entries that match
TierDurationOfAllEntries(rpm, egt) == SumOfDurations(rpm, egt, 1)

\* fault: a peak equal to the threshold of an entry matches the entry
TierDurationInclusive(rpm, egt) ==
  LET hit == { i \in 1..Len(turboCooldownInfo) :
                 rpm >= turboCooldownInfo[i].EngineRPM \/ egt >= turboCooldownInfo[i].ExhaustGasTemp }
  IN IF hit = {} THEN 0
     ELSE turboCooldownInfo[CHOOSE i \in hit : \A j \in hit : i <= j].CooldownDuration

\* the for loop over turboCooldownInfo: the first entry that matches
TierDuration(rpm, egt) ==
  LET hit == { i \in 1..Len(turboCooldownInfo) :
                 rpm > turboCooldownInfo[i].EngineRPM \/ egt > turboCooldownInfo[i].ExhaustGasTemp }
  IN IF hit = {} THEN 0
     ELSE turboCooldownInfo[CHOOSE i \in hit : \A j \in hit : i <= j].CooldownDuration

\* fault: the cold-engine override is missing
NeverCold(oil) == FALSE

\* if (carData.EngineOilTemp < TurboCooldownOilTemperature)
StillCold(oil) == oil < TurboCooldownOilTemperature

\* fault: the spirited-driving override is missing
NeverSpirited(psi) == FALSE

\* if (turboBoostPsi > SpritedDrivingBoostPressure)
SpiritedDriving(psi) == psi > SpritedDrivingBoostPressure * PsiScale

\* fault: the peaks of the next window start from zero
StartFromZero(sample) == 0

\* monitorMaxEngineRPM = carData.EngineRPM; monitorMaxExhaustGasTemp = carData.ExhaustGasTemp
StartFromSample(sample) == sample

\* fault: the cooldown timer is started with every computed duration
AnyDurationStarts(duration, left) == TRUE

\* if (turboCooldownDuration > timerTurboCooldown.GetTimeLeft())
ExtendsCooldown(duration, left) == duration > left

\* the state ProcessCarData leaves, given the state s it is called in
AfterProcessCarData(s) ==
  LET c == s.carData
      \* if (GetTimeLeft() > MaxTurboCooldownDuration) Start();
      t0 == IF s.timerTurboCooldown.left > MaxTurboCooldownDuration
            THEN Started(s.timerTurboCooldown.duration)
            ELSE s.timerTurboCooldown
      psi == TurboBoostPsi(c.BoostPressure, c.AtmosphericPressure)
      newMax == ExceedsMax(psi, s.maxBoostPsi) /\ ValidAtmosphericPressure(c.AtmosphericPressure)
      expired == s.timerTurboCooldownMonitor = 0
      tier == TierDuration(s.monitorMaxEngineRPM, s.monitorMaxExhaustGasTemp)
      afterCold == IF StillCold(c.EngineOilTemp) THEN 0 ELSE tier
      duration == IF SpiritedDriving(psi) THEN MaxTurboCooldownDuration ELSE afterCold
  IN [s EXCEPT
        !.pc = "CopyCarData",
        !.turboBoostPsi = psi,
        !.maxBoostRPM = IF newMax THEN c.EngineRPM ELSE @,
        !.maxBoostGear = IF newMax THEN c.Gear ELSE @,
        !.maxBoostPsi = IF newMax THEN psi ELSE @,
        !.maxColdRPM = IF c.EngineOilTemp < SquadraSafeOilTemperature
                       THEN Max(@, c.EngineRPM) ELSE 0,
        !.timerTurboCooldownMonitor = IF expired THEN MonitorWindowMs ELSE @,
        !.timerTurboCooldown = IF expired /\ ExtendsCooldown(duration, t0.left)
                               THEN Started(duration) ELSE t0,
        !.monitorMaxEngineRPM = IF expired THEN StartFromSample(c.EngineRPM)
                                ELSE Max(@, c.EngineRPM),
        !.monitorMaxExhaustGasTemp = IF expired THEN StartFromSample(c.ExhaustGasTemp)
                                     ELSE Max(@, c.ExhaustGasTemp),
        !.windowMaxEngineRPM = IF expired THEN s.monitorMaxEngineRPM ELSE -1,
        !.windowMaxExhaustGasTemp = IF expired THEN s.monitorMaxExhaustGasTemp ELSE -1,
        !.tierDuration = IF expired THEN tier ELSE -1,
        !.turboCooldownDuration = IF expired THEN duration ELSE -1]

\* the static initial values; the monitor timer, constructed with 5000 ms
\* and not started, has run out or not
InitCarData ==
  /\ InitProgram
  /\ HdrAtRest
  /\ DecAtRest
  /\ GtAtRest
  /\ TxtAtRest
  /\ SuAtRest
  /\ SdtAtRest
  /\ RtAtRest
  /\ \E left \in {0, MonitorWindowMs} :
       pcd = [NoPcd EXCEPT !.timerTurboCooldownMonitor = left]

\* time passes, then CopyCarData hands over the next snapshot
NextCarData ==
  /\ pcd.pc = "CopyCarData"
  /\ \E d \in 0..MaxDelayTicks, c \in CarDataSamples :
       pcd' = [pcd EXCEPT
                 !.pc = "ProcessCarData",
                 !.carData = c,
                 !.timerTurboCooldown.left = Elapsed(@, d * MonitorWindowMs),
                 !.timerTurboCooldownMonitor = Elapsed(@, d * MonitorWindowMs),
                 !.windowMaxEngineRPM = -1,
                 !.windowMaxExhaustGasTemp = -1,
                 !.tierDuration = -1,
                 !.turboCooldownDuration = -1]
  /\ UNCHANGED <<powerVars, dataVars, dispVars, emptyTurns, nameTimerRestarted, hdr, dec, gt, txt, su, sdt, rt>>

\* one call of ProcessCarData
ProcessCarData ==
  /\ pcd.pc = "ProcessCarData"
  /\ pcd' = AfterProcessCarData(pcd)
  /\ UNCHANGED <<powerVars, dataVars, dispVars, emptyTurns, nameTimerRestarted, hdr, dec, gt, txt, su, sdt, rt>>

NextProcessCarData ==
  \/ NextCarData
  \/ ProcessCarData

SpecProcessCarData == InitCarData /\ [][NextProcessCarData]_vars

\* a step that is a call of ProcessCarData
IsProcessCarDataCall == pcd.pc = "ProcessCarData" /\ pcd'.pc = "CopyCarData"

\* the monitor window had run out in the latest call
WindowExpired == pcd.pc = "CopyCarData" /\ pcd.turboCooldownDuration >= 0

C13_Step ==
  IsProcessCarDataCall =>
    /\ pcd'.timerTurboCooldown.left >= pcd.timerTurboCooldown.left
    /\ pcd'.turboCooldownDuration >= 0 =>
         pcd'.timerTurboCooldown.left =
           Max(pcd.timerTurboCooldown.left, pcd'.turboCooldownDuration)

\* C13: a call of ProcessCarData never makes the time left of the cooldown
\* timer smaller; when the monitor window has run out and the duration D was
\* computed, the time left after the call is max(time left before, D)
C13_CooldownOnlyExtended == [][C13_Step]_vars

\* a window ran out with a 30 s duration while more than 30 s were left
C13_Witness ==
  /\ WindowExpired
  /\ pcd.turboCooldownDuration = 30 * 1000
  /\ pcd.timerTurboCooldown.left > 30 * 1000

\* the oil temperature of the latest call is below the still-cold threshold
OilBelowThreshold == pcd.carData.EngineOilTemp < TurboCooldownOilTemperature

\* the boost of the latest call is above the spirited-driving threshold
BoostAboveThreshold == pcd.turboBoostPsi > SpritedDrivingBoostPressure * PsiScale

\* C14 as stated: at a window expiry with the oil temperature below 60 C the
\* computed duration is 0
C14_ColdAlwaysZero ==
  (WindowExpired /\ OilBelowThreshold) => pcd.turboCooldownDuration = 0

\* C14: at a window expiry with the oil temperature below 60 C and the boost
\* not above 20 psi, the computed duration is 0 whatever the tier of the
\* window's peak RPM and exhaust gas temperature
C14_ColdOverride ==
  (WindowExpired /\ OilBelowThreshold /\ ~BoostAboveThreshold) =>
     pcd.turboCooldownDuration = 0

\* a cold window whose peaks are in the 180 s tier
C14_Witness ==
  /\ WindowExpired
  /\ OilBelowThreshold
  /\ ~BoostAboveThreshold
  /\ pcd.tierDuration = 180 * 1000
  /\ pcd.turboCooldownDuration = 0

\* C15: at a window expiry with the boost above 20 psi the computed duration
\* is the 180 s of the highest tier, whatever the tier of the window's peaks
\* and also when the oil temperature is below 60 C
C15_SpiritedOverride ==
  (WindowExpired /\ BoostAboveThreshold) =>
     pcd.turboCooldownDuration = MaxTurboCooldownDuration

\* a cold window with peaks below every tier and a boost above 20 psi
C15_Witness ==
  /\ WindowExpired
  /\ BoostAboveThreshold
  /\ OilBelowThreshold
  /\ pcd.tierDuration = 0
  /\ pcd.turboCooldownDuration = 180 * 1000

Clamp(x, lo, hi) == IF x < lo THEN lo ELSE IF x > hi THEN hi ELSE x

\* maxBoostPsi with the RPM and the gear recorded for it
MaxBoostRecord(s) == <<s.maxBoostPsi, s.maxBoostRPM, s.maxBoostGear>>

C16_Step ==
  IsProcessCarDataCall =>
    /\ pcd'.turboBoostPsi =
         Clamp((pcd.carData.BoostPressure - pcd.carData.AtmosphericPressure) * MbarToPsi,
               0, 40 * PsiScale)
    /\ pcd.carData.AtmosphericPressure <= 0 => MaxBoostRecord(pcd') = MaxBoostRecord(pcd)

\* C16: after a call with absolute pressure P and atmospheric pressure A the
\* boost is clamp((P - A) * 0.0145038, 0, 40) psi, and a call with A <= 0
\* leaves the maximum boost and its recorded RPM and gear as they were
C16_BoostDerivation == [][C16_Step]_vars

\* a call without atmospheric pressure whose boost is above the maximum
C16_Witness ==
  /\ pcd.pc = "CopyCarData"
  /\ pcd.carData.AtmosphericPressure <= 0
  /\ pcd.turboBoostPsi = 40 * PsiScale
  /\ pcd.turboBoostPsi > pcd.maxBoostPsi

-----------------------------------------------------------------------------
(* CalcGear_FromBroadcastedFrame on its own *)

ByteValues == 256     \* pData[0] is a uint8_t

InitGear ==
  /\ InitProgram
  /\ HdrAtRest
  /\ PcdAtRest
  /\ GtAtRest
  /\ TxtAtRest
  /\ SuAtRest
  /\ SdtAtRest
  /\ RtAtRest
  /\ dec \in [d0 : 0..(ByteValues - 1), done : {FALSE}, gear : {0}]

\* one call of CalcGear_FromBroadcastedFrame on a GearInfo frame
DecodeGear ==
  /\ ~dec.done
  /\ dec' = [dec EXCEPT !.done = TRUE,
               !.gear = CalcGear_FromBroadcastedFrame(HSFrame("GearInfo", 8, 0, dec.d0, 0))]
  /\ UNCHANGED <<powerVars, dataVars, dispVars, emptyTurns, nameTimerRestarted, hdr, pcd, gt, txt, su, sdt, rt>>

NextGear == DecodeGear

SpecGear == InitGear /\ [][NextGear]_vars

\* C17: the gear decoded from the high nibble of byte 0: 0x7 is -1
\* (reverse), 0x8..0xA are 7..9, 0xF is 0 (neutral in park), 0x0 is 0 and
\* 0x1..0x6 are 1..6
C17_GearDecode ==
  dec.done =>
    LET nibble == dec.d0 \div 16 IN
      /\ nibble = 7 => dec.gear = -1
      /\ nibble \in 8..10 => dec.gear = nibble - 1
      /\ nibble = 15 => dec.gear = 0
      /\ nibble = 0 => dec.gear = 0
      /\ nibble \in 1..6 => dec.gear = nibble

\* byte 0 = 0x75 was decoded as reverse
C17_Witness ==
  /\ dec.done
  /\ dec.d0 = 117
  /\ dec.gear = -1

-----------------------------------------------------------------------------
(* GenerateText on its own: the message selector of the display task.       *)
(* Times are in ms; the clock of this part has a resolution of a second,    *)
(* and a cycle of the task lasts 1..MaxCycleTicks seconds. Battery is in    *)
(* tenths of a volt.                                                        *)

MaxCycleTicks == 1      \* seconds one cycle of the task may last
MaxIdleToggles == 3     \* cap of the count of idle toggles

CycleTickMs == 1000
ShowNameAndVersionMs == 10000
WaitBeforeShowingInfoWhileIdleMs == 2000
ToggleInfoWhileDrivingMs == 3000
ToggleInfoWhileIdlingMs == 5000
ColdEngineSafeRPM == 3000
IdleRPM == 1000
LowBatteryTenths == 124

infoDrivingInfoWithEngineTemp == 0
infoDrivingInfoWithEngineOilTemp == 1
infoDrivingInfoWithBattery == 2
infoDrivingInfoWithSquadra == 3
infoMaxBoost == 4
infoTurboCooldownTimer == 5
infoWarningLowBattery == 6
infoWarningColdEngine == 7
NumInfoMessages == 8
MaxInfoIndexWhileDriving == infoDrivingInfoWithBattery
MinInfoIndexWhileIdling == infoMaxBoost

\* infoToDisplay: the name and version text, and no call in this cycle
NameAndVersion == -1
NoInfo == -2

Sample(rpm, gear, oil, mode, battery, boost, cooldown) ==
  [carData |-> [EngineRPM |-> rpm, Gear |-> gear, EngineOilTemp |-> oil, DriveMode |-> mode,
                Battery |-> battery],
   maxBoostPsi |-> boost, timerTurboCooldown |-> cooldown]

\* what CopyCarData and ProcessCarData may leave for GenerateText: driving
\* (warm, warm in Dynamic mode, cold with high RPM), reversing cold with high
\* RPM while the turbo cools down, and idling (battery low while the turbo
\* cools down, boost seen, nothing to report with a warm and with a cold
\* engine)
GenerateTextSamples ==
  { Sample(2000, 1, 90, "N", 130, 0, 0),
    Sample(2000, 1, 90, "D", 130, 0, 0),
    Sample(3500, 1, 50, "D", 130, 15 * PsiScale, 0),
    Sample(3500, -1, 50, "N", 130, 0, 30 * 1000),
    Sample(800, 0, 90, "N", 120, 0, 30 * 1000),
    Sample(800, 0, 90, "N", 130, 15 * PsiScale, 0),
    Sample(800, 0, 90, "N", 130, 0, 0),
    Sample(800, 0, 50, "N", 130, 0, 0) }

IsSquadraEnabled(s) ==
  s.carData.DriveMode = "D" /\ s.carData.EngineOilTemp >= SquadraSafeOilTemperature

IsEngineColdAndHighRPM(s) ==
  s.carData.EngineOilTemp < SquadraSafeOilTemperature /\ s.carData.EngineRPM > ColdEngineSafeRPM

IsCarIdlingOrInReverse(s) == s.carData.EngineRPM < IdleRPM \/ s.carData.Gear = -1

IsBatteryLow(s) == s.carData.Battery > 0 /\ s.carData.Battery < LowBatteryTenths

IsBoostInfoInteresting(s) == s.maxBoostPsi > 1 * PsiScale

IsTurboStillCoolingDown(s) == s.timerTurboCooldown # 0

\* fault: the name and version text is never chosen
NameAndVersionOver(s) == FALSE

\* if (!timerShowNameAndVersion.RanOut())
ShowNameAndVersion(s) == s.timerShowNameAndVersion # 0

\* fault: infoIndexWhileDriving is not incremented
IndexWhileDrivingStuck(i) == i

\* infoIndexWhileDriving++ with its wrap
NextIndexWhileDriving(i) == IF i + 1 > MaxInfoIndexWhileDriving THEN 0 ELSE i + 1

\* fault: the for loop stops at the first index, active or not
AnyIdleMessage(s) == MinInfoIndexWhileIdling..(NumInfoMessages - 1)

\* infoIndexWhileIdling after k turns of the for loop: ++ with its wrap, k times
RECURSIVE IndexWhileIdlingAfter(_, _)
IndexWhileIdlingAfter(i, k) ==
  IF k = 0 THEN i
  ELSE LET j == IndexWhileIdlingAfter(i, k - 1) + 1
       IN IF j >= NumInfoMessages THEN MinInfoIndexWhileIdling ELSE j

\* the messages whose condition holds in this cycle
ActiveNow(s) ==
  (IF IsBoostInfoInteresting(s) THEN {infoMaxBoost} ELSE {})
    \cup (IF IsBatteryLow(s) THEN {infoWarningLowBattery} ELSE {})
    \cup (IF IsEngineColdAndHighRPM(s) THEN {infoWarningColdEngine} ELSE {})
    \cup (IF IsTurboStillCoolingDown(s) THEN {infoTurboCooldownTimer} ELSE {})

\* driving (not idling, not in reverse) with a warm engine or low RPM, the
\* Squadra message not enabled
DrivingInformational(s) ==
  ~IsCarIdlingOrInReverse(s) /\ ~IsEngineColdAndHighRPM(s) /\ ~IsSquadraEnabled(s)

\* idling or in reverse with: battery not low, engine cold with high RPM,
\* turbo cooling down, no boost to report
IdleColdAndCooling(s) ==
  /\ IsCarIdlingOrInReverse(s)
  /\ ~IsBatteryLow(s)
  /\ IsEngineColdAndHighRPM(s)
  /\ IsTurboStillCoolingDown(s)
  /\ ~IsBoostInfoInteresting(s)

\* the last three entries of a log
LastThree(log) == IF Len(log) > 3 THEN SubSeq(log, Len(log) - 2, Len(log)) ELSE log

\* the last two entries of a log
LastTwo(log) == IF Len(log) > 2 THEN SubSeq(log, Len(log) - 1, Len(log)) ELSE log

\* bIsInfoActive after the four conditions of this cycle were looked at
ActiveIdleMessages(s) == s.bIsInfoActive \cup ActiveNow(s)

\* fault: the flags are left as they are after an idle toggle
StillActive(active) == active

\* "Set all messages inactive": bIsInfoActive[i] = false for every i
AllInactive(active) == {}

\* "Choose what info to show while driving", infoIndexWhileDriving being index
InfoWhileDriving(s, index) ==
  IF IsSquadraEnabled(s) THEN infoDrivingInfoWithSquadra
  ELSE IF IsEngineColdAndHighRPM(s) THEN infoWarningColdEngine
  ELSE index

\* the selector state GenerateText leaves when the name and version text is over;
\* driveLog: the messages chosen at the driving toggles since DrivingInformational
\* holds; idleToggles, idleLog: the idle toggles since IdleColdAndCooling holds
\* and the messages chosen at the latest two of them; quietToggle: the latest
\* idle toggle of this idle period found no active message
SelectInfo(s) ==
  LET toggleDriving == s.timerToggleInfoWhileDriving = 0
      indexDriving == IF toggleDriving THEN NextIndexWhileDriving(s.infoIndexWhileDriving)
                      ELSE s.infoIndexWhileDriving
      whileDriving == InfoWhileDriving(s, indexDriving)
      idling == IsCarIdlingOrInReverse(s)
      active == ActiveIdleMessages(s)
      toggleIdling == idling /\ s.timerToggleInfoWhileIdling = 0
      numIdleMessages == NumInfoMessages - MinInfoIndexWhileIdling
      hits == { k \in 1..numIdleMessages :
                  IndexWhileIdlingAfter(s.infoIndexWhileIdling, k) \in active }
      turns == IF hits = {} THEN numIdleMessages
               ELSE CHOOSE k \in hits : \A h \in hits : k <= h
      indexIdling == IF toggleIdling THEN IndexWhileIdlingAfter(s.infoIndexWhileIdling, turns)
                     ELSE s.infoIndexWhileIdling
      found == IF ~idling THEN FALSE
               ELSE IF toggleIdling /\ hits # {} THEN TRUE
               ELSE s.bFoundActiveIdleMessage
      wait == IF ~idling THEN [active |-> FALSE, left |-> 0]
              ELSE IF ~s.timerWaitBeforeShowingInfoWhileIdle.active
                   THEN [active |-> TRUE, left |-> WaitBeforeShowingInfoWhileIdleMs]
              ELSE s.timerWaitBeforeShowingInfoWhileIdle
      info == IF idling /\ wait.left = 0 /\ found THEN indexIdling ELSE whileDriving
  IN [s EXCEPT
        !.timerToggleInfoWhileDriving = IF toggleDriving THEN ToggleInfoWhileDrivingMs ELSE @,
        !.infoIndexWhileDriving = indexDriving,
        !.bIsInfoActive = IF toggleIdling THEN AllInactive(active)
                         ELSE IF idling THEN active ELSE @,
        !.timerToggleInfoWhileIdling = IF toggleIdling THEN ToggleInfoWhileIdlingMs ELSE @,
        !.infoIndexWhileIdling = indexIdling,
        !.bFoundActiveIdleMessage = found,
        !.timerWaitBeforeShowingInfoWhileIdle = wait,
        !.infoToDisplay = info,
        !.driveLog = IF ~DrivingInformational(s) THEN << >>
                     ELSE IF toggleDriving THEN LastThree(Append(@, info))
                     ELSE @,
        !.idleToggles = IF ~IdleColdAndCooling(s) THEN 0
                        ELSE IF toggleIdling THEN Min(@ + 1, MaxIdleToggles)
                        ELSE @,
        !.idleLog = IF ~IdleColdAndCooling(s) THEN << >>
                    ELSE IF toggleIdling THEN LastTwo(Append(@, info))
                    ELSE @,
        !.quietToggle = IF ~idling THEN FALSE
                        ELSE IF toggleIdling THEN hits = {}
                        ELSE @]

\* the state GenerateText leaves, given the state s it is called in
AfterGenerateText(s) ==
  LET r == IF ShowNameAndVersion(s)
           THEN [s EXCEPT !.infoToDisplay = NameAndVersion, !.driveLog = << >>,
                          !.idleToggles = 0, !.idleLog = << >>]
           ELSE SelectInfo(s)
  IN [r EXCEPT !.pc = "CopyCarData"]

\* DisplayInfoOnDashboard before its loop has started the two toggle timers;
\* timerShowNameAndVersion, constructed with 10000 ms and not started, has
\* run out or not
InitGenerateText ==
  /\ InitProgram
  /\ HdrAtRest
  /\ PcdAtRest
  /\ DecAtRest
  /\ TxtAtRest
  /\ SuAtRest
  /\ SdtAtRest
  /\ RtAtRest
  /\ \E left \in {0, ShowNameAndVersionMs} :
       gt = [NoGt EXCEPT !.timerShowNameAndVersion = left,
                         !.timerToggleInfoWhileDriving = ToggleInfoWhileDrivingMs,
                         !.timerToggleInfoWhileIdling = ToggleInfoWhileIdlingMs]

\* the timers of s after ms more milliseconds
TimersElapsed(s, ms) ==
  [s EXCEPT
     !.timerShowNameAndVersion = Elapsed(@, ms),
     !.timerWaitBeforeShowingInfoWhileIdle.left = Elapsed(@, ms),
     !.timerToggleInfoWhileDriving = Elapsed(@, ms),
     !.timerToggleInfoWhileIdling = Elapsed(@, ms)]

\* the time of the previous cycle passes; CopyCarData and, with the car
\* turned on, ProcessCarData leave their values (with the car turned off the
\* values are not read and are left out). idleMs: for how long every cycle
\* up to this one was one of idling or reverse (-1: this one is not), counted
\* up to the debounce delay
NextCycle ==
  /\ gt.pc = "CopyCarData"
  /\ \E d \in 1..MaxCycleTicks :
       \/ \E in \in GenerateTextSamples :
            gt' = [TimersElapsed(gt, d * CycleTickMs) EXCEPT
                     !.pc = "GenerateText",
                     !.carData = in.carData,
                     !.maxBoostPsi = in.maxBoostPsi,
                     !.maxColdRPM = IF in.carData.EngineOilTemp < SquadraSafeOilTemperature
                                    THEN Max(@, in.carData.EngineRPM)
                                    ELSE 0,
                     !.timerTurboCooldown = in.timerTurboCooldown,
                     !.infoToDisplay = NoInfo,
                     !.idleMs = IF ~IsCarIdlingOrInReverse(in) THEN -1
                                ELSE IF @ < 0 THEN 0
                                ELSE Min(@ + d * CycleTickMs, WaitBeforeShowingInfoWhileIdleMs)]
       \/ gt' = [TimersElapsed(gt, d * CycleTickMs) EXCEPT
                   !.pc = "CarTurnedOff",
                   !.infoToDisplay = NoInfo,
                   !.idleMs = -1]
  /\ UNCHANGED <<powerVars, dataVars, dispVars, emptyTurns, nameTimerRestarted, hdr, pcd, dec, txt, su, sdt, rt>>

\* one call of GenerateText
CallGenerateText ==
  /\ gt.pc = "GenerateText"
  /\ gt' = AfterGenerateText(gt)
  /\ UNCHANGED <<powerVars, dataVars, dispVars, emptyTurns, nameTimerRestarted, hdr, pcd, dec, txt, su, sdt, rt>>

\* the else branch of the task's loop: timerShowNameAndVersion.Start()
CarTurnedOff ==
  /\ gt.pc = "CarTurnedOff"
  /\ gt' = [gt EXCEPT !.pc = "CopyCarData", !.timerShowNameAndVersion = ShowNameAndVersionMs]
  /\ UNCHANGED <<powerVars, dataVars, dispVars, emptyTurns, nameTimerRestarted, hdr, pcd, dec, txt, su, sdt, rt>>

NextGenerateText ==
  \/ NextCycle
  \/ CallGenerateText
  \/ CarTurnedOff

SpecGenerateText == InitGenerateText /\ [][NextGenerateText]_vars

\* a step that is a call of GenerateText
IsGenerateTextCall == gt.pc = "GenerateText" /\ gt'.pc = "CopyCarData"

\* GenerateText was called in this cycle
Called == gt.pc = "CopyCarData" /\ gt.infoToDisplay # NoInfo

\* driving index, idle index, active flags, found flag, toggle and debounce timers
SelectorState(s) ==
  <<s.infoIndexWhileDriving, s.infoIndexWhileIdling, s.bIsInfoActive,
    s.bFoundActiveIdleMessage, s.timerToggleInfoWhileDriving, s.timerToggleInfoWhileIdling,
    s.timerWaitBeforeShowingInfoWhileIdle>>

C19_Step ==
  (IsGenerateTextCall /\ gt.timerShowNameAndVersion # 0) =>
     /\ gt'.infoToDisplay = NameAndVersion
     /\ SelectorState(gt') = SelectorState(gt)

\* C19: a call of GenerateText made while timerShowNameAndVersion has not run
\* out gives the name and version text, whatever the car data, and leaves the
\* driving index, the idle index, the active flags, the found flag, the two
\* toggle timers and the debounce timer as they were
C19_NameAndVersionFirst == [][C19_Step]_vars

\* the name and version text was given while reversing with a cold engine,
\* both toggle timers run out
C19_Witness ==
  /\ Called
  /\ gt.infoToDisplay = NameAndVersion
  /\ IsCarIdlingOrInReverse(gt) /\ IsEngineColdAndHighRPM(gt)
  /\ gt.timerToggleInfoWhileDriving = 0
  /\ gt.timerToggleInfoWhileIdling = 0

\* engine temp, oil temp and battery
DrivingVariants ==
  {infoDrivingInfoWithEngineTemp, infoDrivingInfoWithEngineOilTemp, infoDrivingInfoWithBattery}

\* GenerateText was called in this cycle and chose a message
InfoChosen == Called /\ gt.infoToDisplay # NameAndVersion

\* C20 as stated: while driving with no cold-engine-high-RPM condition the
\* message is one of engine temp, oil temp and battery
C20_DrivingShowsVariants ==
  (InfoChosen /\ ~IsCarIdlingOrInReverse(gt) /\ ~IsEngineColdAndHighRPM(gt)) =>
     gt.infoToDisplay \in DrivingVariants

\* C20: while driving with no cold-engine-high-RPM condition and the Squadra
\* message not enabled, the message is the variant of the driving index, and
\* the messages of three driving toggles in a row are engine temp, oil temp
\* and battery, each once
C20_DrivingCycle ==
  (InfoChosen /\ DrivingInformational(gt)) =>
     /\ gt.infoToDisplay = gt.infoIndexWhileDriving
     /\ gt.infoToDisplay \in DrivingVariants
     /\ Len(gt.driveLog) = 3 =>
          { gt.driveLog[i] : i \in 1..3 } = DrivingVariants

\* three driving toggles in a row gave oil temp, battery, engine temp
C20_Witness ==
  /\ InfoChosen
  /\ DrivingInformational(gt)
  /\ gt.driveLog = <<infoDrivingInfoWithEngineOilTemp, infoDrivingInfoWithBattery,
                     infoDrivingInfoWithEngineTemp>>

\* C18 as stated: while idling or in reverse with battery not low, engine
\* cold with high RPM, turbo cooling down and no boost to report, from the
\* first idle toggle on the message is never the low-battery warning or the
\* max-boost summary
C18_NoInactiveIdleMessage ==
  (InfoChosen /\ IdleColdAndCooling(gt) /\ gt.idleToggles >= 1) =>
     gt.infoToDisplay \notin {infoWarningLowBattery, infoMaxBoost}

\* C18: with these conditions sustained, from the second idle toggle on the
\* message is the cold-engine warning or the turbo-cooldown timer, and two
\* idle toggles in a row from the second on choose one each
C18_IdleRoundRobin ==
  (InfoChosen /\ IdleColdAndCooling(gt)) =>
     /\ gt.idleToggles >= 2 =>
          gt.infoToDisplay \in {infoWarningColdEngine, infoTurboCooldownTimer}
     /\ gt.idleToggles >= 3 =>
          { gt.idleLog[i] : i \in 1..2 } = {infoWarningColdEngine, infoTurboCooldownTimer}

\* three idle toggles under the conditions: the second chose the cold-engine
\* warning, the third the turbo-cooldown timer
C18_Witness ==
  /\ InfoChosen
  /\ IdleColdAndCooling(gt)
  /\ gt.idleToggles = 3
  /\ gt.idleLog = <<infoWarningColdEngine, infoTurboCooldownTimer>>
  /\ gt.infoToDisplay = infoTurboCooldownTimer

\* idling, not in reverse, with the oil below the safe temperature
IdlingCold(s) ==
  /\ s.carData.EngineRPM < IdleRPM
  /\ s.carData.Gear # -1
  /\ s.carData.EngineOilTemp < SquadraSafeOilTemperature

\* RPM exceeded the cold-engine safe RPM while the engine was cold and has
\* not warmed up since
ColdHighRPMOccurred(s) == s.maxColdRPM > ColdEngineSafeRPM

C21_Step ==
  (IsGenerateTextCall /\ ~ShowNameAndVersion(gt) /\ IdlingCold(gt) /\ ColdHighRPMOccurred(gt)) =>
     infoWarningColdEngine \in ActiveIdleMessages(gt)

\* C21: in a call of GenerateText past the name and version text, made while
\* idling (not in reverse) with the oil below the safe temperature, after RPM
\* exceeded the cold-engine safe RPM with the engine cold, the cold-engine
\* warning is among the active idle messages
C21_ColdWarningWhenIdling == [][C21_Step]_vars

\* none of the four idle conditions holds in this cycle
NoIdleConditionActive(s) == ActiveNow(s) = {}

\* C22: while idling or in reverse, in a cycle in which none of the four idle
\* conditions is active, the latest idle toggle having found no active message
\* either, the message is the one chosen for driving
C22_FallBackToDriving ==
  (InfoChosen /\ IsCarIdlingOrInReverse(gt) /\ NoIdleConditionActive(gt) /\ gt.quietToggle) =>
     gt.infoToDisplay = InfoWhileDriving(gt, gt.infoIndexWhileDriving)

\* the messages shown only while idling
IdleOnlyInfo == {infoMaxBoost, infoTurboCooldownTimer, infoWarningLowBattery}

\* C23: a max-boost, turbo-cooldown or low-battery message is displayed only
\* in a cycle up to which idling or reverse has held in every cycle for the
\* debounce delay, and in a cycle of driving the debounce timer is stopped
\* and the message is a driving variant, the Squadra message or the
\* cold-engine warning
C23_IdleDebounce ==
  InfoChosen =>
     /\ gt.infoToDisplay \in IdleOnlyInfo =>
          (IsCarIdlingOrInReverse(gt) /\ gt.idleMs >= WaitBeforeShowingInfoWhileIdleMs)
     /\ ~IsCarIdlingOrInReverse(gt) =>
          /\ ~gt.timerWaitBeforeShowingInfoWhileIdle.active
          /\ gt.infoToDisplay \in
                DrivingVariants \cup {infoDrivingInfoWithSquadra, infoWarningColdEngine}

-----------------------------------------------------------------------------
(* The text GenerateText writes, on its own: sprintf of each message with   *)
(* its values. Battery is in tenths of a volt, boost in PsiScale units.     *)

VersionTenths == 15     \* g_Version = 1.5f

g_ProjectName == "DataDash+"

Digit(d) == SubSeq("0123456789", d + 1, d + 1)

\* the decimal digits of n >= 0
RECURSIVE Dec(_)
Dec(n) == IF n < 10 THEN Digit(n) ELSE Dec(n \div 10) \o Digit(n % 10)

\* s, padded on the left with c to a width of at least w
RECURSIVE PadLeft(_, _, _)
PadLeft(s, w, c) == IF Len(s) >= w THEN s ELSE PadLeft(c \o s, w, c)

\* sprintf %wd
FormatD(n, w) == PadLeft(IF n < 0 THEN "-" \o Dec(-n) ELSE Dec(n), w, " ")

\* sprintf %02d
Format02D(n) == PadLeft(Dec(n), 2, "0")

\* sprintf %w.1f of a value given in tenths
FormatF1(tenths, w) == PadLeft(Dec(tenths \div 10) \o "." \o Digit(tenths % 10), w, " ")

\* conversion of a float to int32_t: towards zero
TruncDiv(a, b) == IF a >= 0 THEN a \div b ELSE -((-a) \div b)

\* int32_t(psi + 0.5f)
RoundedPsi(psi) == (psi + PsiScale \div 2) \div PsiScale

\* int32_t(farh + 0.5f) with farh = (temp * 9.5f / 5.0f) + 32.0f
RoundedFarh(temp) == TruncDiv(temp * 19 + 320 + 5, 10)

GenerateGearText(gear) ==
  LET gearLetter == IF gear = -1 THEN "R" ELSE IF gear = 0 THEN "N" ELSE "D"
  IN IF gear > 0 /\ gear <= 8 THEN gearLetter \o Dec(gear) ELSE gearLetter \o " "

\* " %2d psi   %s   " of the four driving messages
DrivingPrefix(s) ==
  " " \o FormatD(RoundedPsi(s.turboBoostPsi), 2) \o " psi   "
      \o GenerateGearText(s.carData.Gear) \o "   "

\* the first sprintf of the max-boost message
MaxBoostPart(s) ==
  "Max " \o FormatD(RoundedPsi(s.maxBoostPsi), 2) \o " psi @ "
         \o FormatD(s.maxBoostRPM, 4) \o " rpm"

\* the texts sprintf(text, "%s %s", text, gearText) can leave: source and
\* destination overlap, which is undefined; the text is read before it is
\* overwritten, or after its first character was, or after its end was
MaxBoostTexts(s) ==
  LET part == MaxBoostPart(s)
      gearText == GenerateGearText(s.maxBoostGear)
  IN { part \o " " \o gearText,
       " " \o gearText,
       part }

\* the texts GenerateText can write for message s.infoToDisplay
FormattedTexts(s) ==
  CASE s.infoToDisplay = NameAndVersion ->
         { "    " \o g_ProjectName \o "   v" \o FormatF1(VersionTenths, 1) }
    [] s.infoToDisplay = infoDrivingInfoWithEngineTemp ->
         { DrivingPrefix(s) \o "Eng " \o FormatD(RoundedFarh(s.carData.EngineTemp), 3) \o "*F" }
    [] s.infoToDisplay = infoDrivingInfoWithEngineOilTemp ->
         { DrivingPrefix(s) \o "Oil " \o FormatD(RoundedFarh(s.carData.EngineOilTemp), 3) \o "*F" }
    [] s.infoToDisplay = infoDrivingInfoWithBattery ->
         { DrivingPrefix(s) \o "Bat " \o FormatF1(s.carData.Battery, 2) \o "V" }
    [] s.infoToDisplay = infoDrivingInfoWithSquadra ->
         { DrivingPrefix(s) \o "Squadra  " }
    [] s.infoToDisplay = infoMaxBoost -> MaxBoostTexts(s)
    [] s.infoToDisplay = infoTurboCooldownTimer ->
         IF s.secondsLeft > 0
         THEN { "Turbo cooling down  " \o FormatD(s.secondsLeft \div 60, 1) \o ":"
                  \o Format02D(s.secondsLeft - (s.secondsLeft \div 60) * 60) }
         ELSE { "    Turbo cooled down   " }
    [] s.infoToDisplay = infoWarningLowBattery ->
         { " Battery is low!  " \o FormatF1(s.carData.Battery, 2) \o "V " }
    [] s.infoToDisplay = infoWarningColdEngine ->
         { " Careful, engine is cold" }

\* values at and around the widths of the formats: gear R, N, 1, 8; engine
\* temperature -40..215 and oil temperature 0..255 C; battery 0.0..25.5 V;
\* boost 0..40 psi; RPM 0..16383; cooldown 0..180 s
GearSamples == {-1, 0, 1, 8}
TempSamples == {<<-40, 0>>, <<90, 90>>, <<215, 255>>}
BatterySamples == {0, 99, 100, 126, 255}
BoostSamples == {0, 94 * (PsiScale \div 10), 40 * PsiScale}
RPMSamples == {0, 999, 5555, 9999, 10000, 16383}
SecondsSamples == {0, 9, 72, 180}

InitText ==
  /\ InitProgram
  /\ HdrAtRest
  /\ PcdAtRest
  /\ DecAtRest
  /\ GtAtRest
  /\ SuAtRest
  /\ SdtAtRest
  /\ RtAtRest
  /\ \E info \in {NameAndVersion} \cup 0..(NumInfoMessages - 1),
        gear \in GearSamples, temp \in TempSamples, battery \in BatterySamples,
        boost \in BoostSamples, rpm \in RPMSamples, seconds \in SecondsSamples :
       txt = [NoTxt EXCEPT
                !.infoToDisplay = info,
                !.carData = [Gear |-> gear, EngineTemp |-> temp[1], EngineOilTemp |-> temp[2],
                             Battery |-> battery],
                !.turboBoostPsi = boost, !.maxBoostPsi = boost,
                !.maxBoostRPM = rpm, !.maxBoostGear = gear,
                !.secondsLeft = seconds]

\* GenerateText writes the text of the message
WriteText ==
  /\ ~txt.done
  /\ \E text \in FormattedTexts(txt) :
       txt' = [txt EXCEPT !.text = text, !.done = TRUE]
  /\ UNCHANGED <<powerVars, dataVars, dispVars, emptyTurns, nameTimerRestarted, hdr, pcd, dec, gt, su, sdt, rt>>

NextText == WriteText

SpecText == InitText /\ [][NextText]_vars

\* C24: the text GenerateText writes is 24 characters long, for every message
\* and for the name and version text
C24_TextIs24Characters == txt.done => Len(txt.text) = NumCharsInText

-----------------------------------------------------------------------------
(* The display task sends frames only with the car turned on *)

\* a step in which SetDashboardTextCharacters sends a frame on the low-speed bus
IsSendStep == dpc = "sdt_send" /\ dpc' = "sdt_delay"

\* the step after CopyCarData has returned: the branch on carData.bCarTurnedOn
IsBranchStep == dpc = "copy_give" /\ dpc' \notin {"copy_give", "none"}

C25_Step ==
  /\ IsSendStep => carData.bCarTurnedOn
  /\ (IsBranchStep /\ ~carData.bCarTurnedOn) => dpc' = "idle"
  /\ (dpc \in {"idle", "idle_delay"} /\ dpc' # "none") =>
        /\ dpc' \in {"idle", "idle_delay", "CopyCarData"}
        /\ stepTx' = stepTx
        /\ ~carData'.bCarTurnedOn
        /\ dpc' # "idle" => nameTimerRestarted'

\* C25: a frame is sent on the low-speed bus only while the local copy has
\* bCarTurnedOn true; a cycle whose copy has it false takes the else branch,
\* where no frame is sent and timerShowNameAndVersion is restarted
C25_SendsOnlyWhenTurnedOn == [][C25_Step]_vars

\* the else branch is taken during DeepSleep's delay, after the ignition was
\* seen on: the timer is restarted and the latest step has sent no frame
C25_Witness ==
  /\ dpc = "idle_delay"
  /\ ~carData.bCarTurnedOn
  /\ nameTimerRestarted
  /\ stepTx = -1
  /\ apc = "ds_delay"
  /\ ignSeen = "OnOrStart"

-----------------------------------------------------------------------------
(* setup() after WaitForCarToTurnOn, on its own: the begin calls of the two  *)
(* controllers, each of which succeeds or fails.                            *)

MaxBeginRetries == 10    \* cap of the count of delay(1000) retries
NumSetupRequests == 5    \* SendOBD2Request calls of SetupCollectCarData

\* SetupCollectCarData: NormalMode_SN65HVD230(); the result of
\* ESP32Can.begin is not looked at
su_NormalMode_SN65HVD230 ==
  /\ su.pc = "SetupCollectCarData"
  /\ \E ok \in BOOLEAN :
       su' = [su EXCEPT !.sn65 = IF ok THEN "normal" ELSE "failed",
                        !.pc = "SendOBD2Request"]
  /\ UNCHANGED <<powerVars, dataVars, dispVars, emptyTurns, nameTimerRestarted, hdr, pcd, dec,
                 gt, txt, sdt, rt>>

\* SetupCollectCarData: one of the five SendOBD2Request calls
su_SendOBD2Request ==
  /\ su.pc = "SendOBD2Request"
  /\ su' = [su EXCEPT !.requests = @ + 1,
                      !.pc = IF su.requests + 1 = NumSetupRequests
                             THEN "CAN_begin" ELSE "SendOBD2Request"]
  /\ UNCHANGED <<powerVars, dataVars, dispVars, emptyTurns, nameTimerRestarted, hdr, pcd, dec,
                 gt, txt, sdt, rt>>

\* SetupDisplayInfoOnDashboard: while (CAN.begin(Config) != OK)
su_CAN_begin ==
  /\ su.pc = "CAN_begin"
  /\ \E ok \in BOOLEAN :
       su' = [su EXCEPT !.mcp = IF ok THEN "config" ELSE "failed",
                        !.pc = IF ok THEN "setMode" ELSE "delay"]
  /\ UNCHANGED <<powerVars, dataVars, dispVars, emptyTurns, nameTimerRestarted, hdr, pcd, dec,
                 gt, txt, sdt, rt>>

\* SetupDisplayInfoOnDashboard: delay(1000), then the next attempt
su_delay ==
  /\ su.pc = "delay"
  /\ su' = [su EXCEPT !.retries = Min(@ + 1, MaxBeginRetries), !.pc = "CAN_begin"]
  /\ UNCHANGED <<powerVars, dataVars, dispVars, emptyTurns, nameTimerRestarted, hdr, pcd, dec,
                 gt, txt, sdt, rt>>

\* SetupDisplayInfoOnDashboard: filters, CAN.setMode(Normal), up to its return
su_setMode ==
  /\ su.pc = "setMode"
  /\ su' = [su EXCEPT !.mcp = "normal", !.pc = "xTaskCreatePinnedToCore"]
  /\ UNCHANGED <<powerVars, dataVars, dispVars, emptyTurns, nameTimerRestarted, hdr, pcd, dec,
                 gt, txt, sdt, rt>>

\* setup: the semaphore, then the display task is created
su_xTaskCreatePinnedToCore ==
  /\ su.pc = "xTaskCreatePinnedToCore"
  /\ su' = [su EXCEPT !.task = TRUE, !.pc = "loop"]
  /\ UNCHANGED <<powerVars, dataVars, dispVars, emptyTurns, nameTimerRestarted, hdr, pcd, dec,
                 gt, txt, sdt, rt>>

InitSetup ==
  /\ InitProgram
  /\ UnitsAtRest

NextSetup ==
  \/ su_NormalMode_SN65HVD230
  \/ su_SendOBD2Request
  \/ su_CAN_begin
  \/ su_delay
  \/ su_setMode
  \/ su_xTaskCreatePinnedToCore

SpecSetup == InitSetup /\ [][NextSetup]_vars

\* C26: setup sends a request or creates the display task only after the
\* high-speed controller has started, and creates the display task only
\* after the low-speed controller has started
C26_InitFailureBlocks ==
  /\ (su.requests > 0 \/ su.task) => su.sn65 = "normal"
  /\ su.task => su.mcp = "normal"

\* the part of C26 that is about the low-speed controller
LowSpeedFailureBlocks ==
  /\ su.task => su.mcp = "normal"
  /\ su.mcp = "failed" => su.pc \in {"delay", "CAN_begin"}

-----------------------------------------------------------------------------
(* The restart after a wake from deep sleep *)

\* everything but RTC memory and the controllers is as after power-on
RamCleared ==
  /\ caller = "none"
  /\ timerActive = FALSE /\ timerLeft = 0
  /\ g_IgnitionKeyPosition = IgnOff /\ g_Gear = 0 /\ g_CurrentCarData = NoCarData
  /\ semHolder = "none" /\ task = "none"
  /\ hsTx = FALSE /\ unanswered = 0 /\ dsDelay = 0 /\ dsLog = << >>
  /\ sawDriveMode = FALSE /\ ignSeen = "none"
  /\ dpc = "none" /\ carData = NoCarData
  /\ currentFrame = 0 /\ delayShort = FALSE
  /\ currentRadioFrame = 0 /\ numRadioFrames = 0
  /\ dWait = 0 /\ stepTx = -1 /\ stepRx = "none"
  /\ recovEq = FALSE /\ recovGe = FALSE

C27_Step ==
  /\ (apc = "asleep" /\ apc' # "asleep") =>
        (apc' = "setup" /\ g_bInDeepSleep' /\ RamCleared')
  /\ (apc = "setup" /\ g_bInDeepSleep) =>
        (apc' = "setup" /\ ~g_bInDeepSleep' /\ RamCleared')
  /\ (apc = "setup" /\ ~g_bInDeepSleep) => apc' = "WaitForCarToTurnOn"

\* C27: the wake from deep sleep enters setup with g_bInDeepSleep set; setup
\* then clears it and restarts into cleared memory, and the setup of the
\* restarted run, finding it clear, goes on to WaitForCarToTurnOn
C27_OneRestartAfterWake == [][C27_Step]_vars

\* the restarted run has reached WaitForCarToTurnOn: the low-speed controller
\* is still in the sleep mode DeepSleep has put it in
C27_Witness ==
  /\ apc = "WaitForCarToTurnOn"
  /\ mcp = "sleep"
  /\ ~g_bInDeepSleep
  /\ RamCleared

-----------------------------------------------------------------------------
(* The for loop over turboCooldownInfo on its own: one call of              *)
(* ProcessCarData at the end of a monitor window whose peaks are at and     *)
(* next to the thresholds of the table.                                     *)

PeakRPMSamples == {0, 2100, 2101, 2600, 2601, 3500, 3501, 4000, 4001}
PeakEGTSamples == {0, 538, 539, 649, 650, 703, 704, 816, 817}

\* the monitor window has run out with the peaks rpm and egt, no boost and
\* no cold engine have been seen, no cooldown is under way
InitTier ==
  /\ InitProgram
  /\ HdrAtRest
  /\ DecAtRest
  /\ GtAtRest
  /\ TxtAtRest
  /\ SuAtRest
  /\ SdtAtRest
  /\ RtAtRest
  /\ \E rpm \in PeakRPMSamples, egt \in PeakEGTSamples, c \in CarDataSamples :
       pcd = [NoPcd EXCEPT
                !.pc = "ProcessCarData",
                !.carData = c,
                !.monitorMaxEngineRPM = rpm,
                !.monitorMaxExhaustGasTemp = egt,
                !.timerTurboCooldownMonitor = 0]

NextTier == ProcessCarData

SpecTier == InitTier /\ [][NextTier]_vars

\* the rows of the table one after the other, each with strict comparisons
FirstRowDuration(rpm, egt) ==
  IF rpm > 4000 \/ egt > 816 THEN 180 * 1000
  ELSE IF rpm > 3500 \/ egt > 703 THEN 60 * 1000
  ELSE IF rpm > 2600 \/ egt > 649 THEN 30 * 1000
  ELSE IF rpm > 2100 \/ egt > 538 THEN 0
  ELSE 0

-----------------------------------------------------------------------------
(* The boundary of the monitor window *)

\* the peaks ProcessCarData keeps for the window under way
MonitorPeaks(s) == <<s.monitorMaxEngineRPM, s.monitorMaxExhaustGasTemp>>

\* the peaks the latest call has looked up in turboCooldownInfo
WindowPeaks(s) == <<s.windowMaxEngineRPM, s.windowMaxExhaustGasTemp>>

\* the sample of the call
SamplePeaks(s) == <<s.carData.EngineRPM, s.carData.ExhaustGasTemp>>

C29_Step ==
  IsProcessCarDataCall =>
    IF pcd.timerTurboCooldownMonitor = 0
    THEN /\ WindowPeaks(pcd') = MonitorPeaks(pcd)
         /\ MonitorPeaks(pcd') = SamplePeaks(pcd)
    ELSE /\ WindowPeaks(pcd') = <<-1, -1>>
         /\ MonitorPeaks(pcd') =
              <<Max(pcd.monitorMaxEngineRPM, pcd.carData.EngineRPM),
                Max(pcd.monitorMaxExhaustGasTemp, pcd.carData.ExhaustGasTemp)>>

\* C29: a call within a monitor window raises the peaks of that window to its
\* sample; the call in which the window has run out looks up the peaks
\* without its own sample and starts the peaks of the next window from that
\* sample, not from zero: every sample is in the peaks of exactly one window
C29_SampleInOneWindow == [][C29_Step]_vars

\* a window has run out in a call whose sample is above the peaks of that
\* window: the sample is the start of the next window's peaks
C29_Witness ==
  /\ WindowExpired
  /\ pcd.windowMaxEngineRPM = 800
  /\ pcd.windowMaxExhaustGasTemp = 500
  /\ pcd.carData.EngineRPM = 4100
  /\ pcd.carData.ExhaustGasTemp = 704
  /\ pcd.monitorMaxEngineRPM = 4100
  /\ pcd.monitorMaxExhaustGasTemp = 704
  /\ pcd.tierDuration = 0

-----------------------------------------------------------------------------
(* A snapshot without a plausible atmospheric pressure *)

\* the snapshot of the latest call has no atmospheric pressure above zero
ImplausibleAtmosphericPressure == pcd.carData.AtmosphericPressure <= 0

\* the duration after the cold-engine override alone
DurationWithoutBoost(s) ==
  IF s.carData.EngineOilTemp < TurboCooldownOilTemperature THEN 0 ELSE s.tierDuration

\* C30: at a window expiry in a call whose snapshot has an atmospheric
\* pressure of zero or less, the boost of that call does not force the
\* cooldown duration to the maximum: the duration is the one of the tier
\* lookup and the cold-engine override
C30_NoOverrideWithoutAtmosphere ==
  (WindowExpired /\ ImplausibleAtmosphericPressure) =>
     pcd.turboCooldownDuration = DurationWithoutBoost(pcd)

-----------------------------------------------------------------------------
(* The max boost over a sequence of calls of ProcessCarData: snapshots that *)
(* differ in their pressures, their RPM and their gear only                 *)

BoostDataSamples ==
  { [EngineRPM |-> rg[1], ExhaustGasTemp |-> 500, EngineOilTemp |-> 90,
     BoostPressure |-> pr[1], AtmosphericPressure |-> pr[2], Gear |-> rg[2]] :
      rg \in {<<1800, 2>>, <<3000, 4>>},
      pr \in {<<900, 1013>>, <<1500, 1013>>, <<2500, 1013>>, <<3000, 1013>>,
              <<3900, 1013>>, <<4000, 0>>} }

\* CopyCarData hands over the next snapshot
NextBoostData ==
  /\ pcd.pc = "CopyCarData"
  /\ \E c \in BoostDataSamples :
       pcd' = [pcd EXCEPT
                 !.pc = "ProcessCarData",
                 !.carData = c,
                 !.windowMaxEngineRPM = -1,
                 !.windowMaxExhaustGasTemp = -1,
                 !.tierDuration = -1,
                 !.turboCooldownDuration = -1]
  /\ UNCHANGED <<powerVars, dataVars, dispVars, emptyTurns, nameTimerRestarted, hdr, dec, gt, txt, su, sdt, rt>>

NextMaxBoost ==
  \/ NextBoostData
  \/ ProcessCarData

SpecMaxBoost == InitCarData /\ [][NextMaxBoost]_vars

C31_Step ==
  IsProcessCarDataCall =>
    /\ pcd'.maxBoostPsi >= pcd.maxBoostPsi
    /\ IF pcd'.maxBoostPsi # pcd.maxBoostPsi
       THEN /\ pcd'.maxBoostPsi = pcd'.turboBoostPsi
            /\ pcd'.maxBoostRPM = pcd.carData.EngineRPM
            /\ pcd'.maxBoostGear = pcd.carData.Gear
       ELSE /\ pcd'.maxBoostRPM = pcd.maxBoostRPM
            /\ pcd'.maxBoostGear = pcd.maxBoostGear

\* C31: a call of ProcessCarData never makes maxBoostPsi smaller; a call that
\* changes it sets it to the boost of the call's snapshot and maxBoostRPM and
\* maxBoostGear to the RPM and gear of that snapshot, and a call that leaves
\* it leaves the other two
C31_MaxBoostOfOneCycle == [][C31_Step]_vars

\* the maximum has been raised and a later call with a smaller boost, another
\* RPM and another gear has left the record as it was
C31_Witness ==
  /\ pcd.pc = "CopyCarData"
  /\ pcd.maxBoostPsi > 20 * PsiScale
  /\ pcd.maxBoostPsi < 40 * PsiScale
  /\ pcd.turboBoostPsi > 0
  /\ pcd.turboBoostPsi < pcd.maxBoostPsi
  /\ pcd.maxBoostRPM # pcd.carData.EngineRPM
  /\ pcd.maxBoostGear # pcd.carData.Gear

-----------------------------------------------------------------------------
(* SetDashboardText on its own: one call after the other, with every radio  *)
(* frame or none at every CAN.read                                          *)

MaxRestartsCounted == 2   \* restarts of the for loop are counted up to this number

TextSamples == {"ABCDEFGHIJKLMNOPQRSTUVWX", "Max 22 psi @ 5555 rpm D4"}

\* fault: the frames start at positions 0, 1, 2, ...
PositionOfFrame(frame) == frame

\* uint8_t characterStartPosition = currentFrame * NumUTFCharsPerFrame
CharacterStartPosition(frame) == frame * NumUTFCharsPerFrame

\* SetDashboardTextCharacters: the 8 bytes of canData for the three
\* characters at text + position
CanData(numFrames, frame, text, position) ==
  LET header == SetDashboardTextCharacters(numFrames, frame, InfoCode)
      char(i) == SubSeq(text, position + i + 1, position + i + 1)
  IN <<header.b0, header.b1, 0, char(0), 0, char(1), 0, char(2)>>

\* the frames sent so far with one more, the latest NumFramesToDisplayText kept
Sent(s, frame) ==
  LET all == Append(s.sent, frame)
  IN [s EXCEPT !.sent = IF Len(all) > NumFramesToDisplayText
                        THEN SubSeq(all, 2, Len(all)) ELSE all,
               !.numSent = Min(@ + 1, NumFramesToDisplayText + 1)]

\* fault: the loop goes on after the frame it had reached
ResumeAfter(frame) == frame + 1

\* currentFrame = -1 and the for loop's currentFrame++
RestartAfter(frame) == 0

\* a radio frame was read: the own first frame interrupts radio frame 1;
\* then the wait for the last radio frame, or the restart of the for loop
AfterRadioFrame(s, rx) ==
  LET cur == GetCurrentRadioFrame(rx)
      num == GetNumRadioFrames(rx)
      t == IF InterruptRadio(cur)
           THEN Sent(s, CanData(NumFramesToDisplayText, 0, s.text, 0)) ELSE s
  IN IF WaitForLastRadioFrame(cur, num)
     THEN [t EXCEPT !.pc = "sdt_wait", !.competing = TRUE,
                    !.currentRadioFrame = cur, !.numRadioFrames = num]
     ELSE [t EXCEPT !.pc = IF RestartAfter(s.currentFrame) < NumFramesToDisplayText
                           THEN "sdt_send" ELSE "CopyCarData",
                    !.competing = TRUE,
                    !.currentFrame = RestartAfter(s.currentFrame),
                    !.delayShort = TRUE,
                    !.restarts = Min(@ + 1, MaxRestartsCounted),
                    !.restarted = TRUE,
                    !.currentRadioFrame = 0, !.numRadioFrames = 0]

\* the display task calls SetDashboardText(text, TimeToDisplayText)
u_SetDashboardText ==
  /\ sdt.pc = "CopyCarData"
  /\ \E text \in TextSamples :
       sdt' = [NoSdt EXCEPT !.pc = "sdt_send", !.text = text]
  /\ UNCHANGED <<powerVars, dataVars, dispVars, emptyTurns, nameTimerRestarted, hdr, pcd, dec,
                 gt, txt, su, rt>>

\* SetDashboardTextCharacters(NumFramesToDisplayText, currentFrame, ...); delay
u_send ==
  /\ sdt.pc = "sdt_send"
  /\ sdt' = [Sent(sdt, CanData(NumFramesToDisplayText, sdt.currentFrame, sdt.text,
                               CharacterStartPosition(sdt.currentFrame)))
               EXCEPT !.pc = "sdt_read", !.dWait = FrameDelayTicks(sdt.delayShort),
                      !.restarted = FALSE]
  /\ UNCHANGED <<powerVars, dataVars, dispVars, emptyTurns, nameTimerRestarted, hdr, pcd, dec,
                 gt, txt, su, rt>>

\* CAN.read after the delay: nothing or a frame with the own info code, and
\* the for loop goes on or is left; or a radio frame
u_read ==
  /\ sdt.pc = "sdt_read"
  /\ \E rx \in RadioFrames \cup {NoFrame} :
       sdt' = IF rx = NoFrame \/ GetRadioInfoCode(rx) = InfoCode
              THEN IF sdt.currentFrame + 1 >= NumFramesToDisplayText
                   THEN [sdt EXCEPT !.pc = "CopyCarData"]
                   ELSE [sdt EXCEPT !.pc = "sdt_send", !.currentFrame = @ + 1]
              ELSE AfterRadioFrame(sdt, rx)
  /\ UNCHANGED <<powerVars, dataVars, dispVars, emptyTurns, nameTimerRestarted, hdr, pcd, dec,
                 gt, txt, su, rt>>

\* a turn of the inner while loop that reads a frame
u_wait ==
  /\ sdt.pc = "sdt_wait"
  /\ \E rx \in RadioFrames : sdt' = AfterRadioFrame(sdt, rx)
  /\ UNCHANGED <<powerVars, dataVars, dispVars, emptyTurns, nameTimerRestarted, hdr, pcd, dec,
                 gt, txt, su, rt>>

InitSetDashboardText == InitProgram /\ UnitsAtRest

NextSetDashboardText ==
  \/ u_SetDashboardText
  \/ u_send
  \/ u_read
  \/ u_wait

SpecSetDashboardText == InitSetDashboardText /\ [][NextSetDashboardText]_vars

\* the latest call of SetDashboardText has returned
Returned == sdt.pc = "CopyCarData" /\ sdt.numSent > 0

\* frame i of 8 with the own info code 5 and characters 3i, 3i+1, 3i+2
FrameOfText(text, i) ==
  <<(7 * 8) + (i \div 4), ((i % 4) * 64) + 5,
    0, SubSeq(text, 3 * i + 1, 3 * i + 1),
    0, SubSeq(text, 3 * i + 2, 3 * i + 2),
    0, SubSeq(text, 3 * i + 3, 3 * i + 3)>>

\* C32: as long as a call of SetDashboardText has read no competing frame,
\* the frames it has sent are frames 0, 1, 2, ... of 8 in this order, each
\* with the own info code and characters 3i, 3i+1, 3i+2 of the text behind
\* zero bytes; when it returns it has sent exactly the 8 frames 0..7
C32_EightFramesOfThreeCharacters ==
  ~sdt.competing =>
    /\ sdt.numSent = Len(sdt.sent)
    /\ \A i \in 1..Len(sdt.sent) : sdt.sent[i] = FrameOfText(sdt.text, i - 1)
    /\ Returned => sdt.numSent = 8

\* a call that has read no competing frame has returned: the last frame it
\* has sent is frame 7 of 8 with the characters 21, 22 and 23
C32_Witness ==
  /\ Returned
  /\ ~sdt.competing
  /\ sdt.text = "ABCDEFGHIJKLMNOPQRSTUVWX"
  /\ sdt.sent[8] = <<57, 197, 0, "V", 0, "W", 0, "X">>

\* a step that sends a frame of the for loop and starts the delay after it
IsLoopSend == sdt.pc = "sdt_send" /\ sdt'.pc = "sdt_read"

C33_Step ==
  IsLoopSend =>
    sdt'.dWait * DisplayTickMs =
      IF sdt.restarts = 0 THEN DelayTimeBetweenFrames ELSE DelayTimeBetweenFrames - 5

\* C33: the delay after a frame of the for loop is DelayTimeBetweenFrames as
\* long as the call has not restarted the loop, and DelayTimeBetweenFrames - 5
\* after every frame that follows the first restart of the call, also after
\* further restarts; the next call starts with DelayTimeBetweenFrames again
C33_DelayShortenedOnce == [][C33_Step]_vars

\* a call has returned after two restarts or more: the delay after its last
\* frame was the shortened one
C33_Witness ==
  /\ Returned
  /\ sdt.restarts = MaxRestartsCounted
  /\ sdt.dWait * DisplayTickMs = 20

\* the frame index in the header of a frame sent
IndexOf(frame) == ((frame[1] % 8) * 4) + (frame[2] \div 64)

\* C38: when SetDashboardText returns, the last 8 frames it has sent are the
\* frames 0, 1, ..., 7 in this order, whatever radio frames it has read
C38_LastEightFramesInOrder ==
  Returned =>
    /\ Len(sdt.sent) = 8
    /\ \A i \in 1..8 : IndexOf(sdt.sent[i]) = i - 1

\* a call has returned that has read competing frames and restarted its for
\* loop twice or more
C38_Witness ==
  /\ Returned
  /\ sdt.competing
  /\ sdt.restarts = MaxRestartsCounted
  /\ sdt.numSent > 8
  /\ IndexOf(sdt.sent[1]) = 0
  /\ IndexOf(sdt.sent[8]) = 7

-----------------------------------------------------------------------------
(* The earlier revision of SetDashboardText (src/unnamed/part_000) on its   *)
(* own: two reads per frame, and a restart at every frame read              *)

\* currentFrame = 0; continue; and the for loop's currentFrame++
old_ContinueFromFirst(s) ==
  [s EXCEPT !.pc = "old_send", !.currentFrame = 0 + 1,
            !.competing = TRUE, !.restarted = TRUE,
            !.restarts = Min(@ + 1, MaxRestartsCounted)]

\* the display task calls SetDashboardText(text, TimeToDisplayText)
old_SetDashboardText ==
  /\ sdt.pc = "CopyCarData"
  /\ \E text \in TextSamples :
       sdt' = [NoSdt EXCEPT !.pc = "old_send", !.text = text]
  /\ UNCHANGED <<powerVars, dataVars, dispVars, emptyTurns, nameTimerRestarted, hdr, pcd, dec,
                 gt, txt, su, rt>>

\* SetDashboardTextCharacters(NumFramesToDisplayText, currentFrame, ...)
old_send ==
  /\ sdt.pc = "old_send"
  /\ sdt' = [Sent(sdt, CanData(NumFramesToDisplayText, sdt.currentFrame, sdt.text,
                               CharacterStartPosition(sdt.currentFrame)))
               EXCEPT !.pc = "old_read", !.restarted = FALSE]
  /\ UNCHANGED <<powerVars, dataVars, dispVars, emptyTurns, nameTimerRestarted, hdr, pcd, dec,
                 gt, txt, su, rt>>

\* the first CAN.read, right after the frame was sent; without a frame read,
\* delay(DelayTimeBetweenFrames / 2)
old_read ==
  /\ sdt.pc = "old_read"
  /\ \E rx \in RadioFrames \cup {NoFrame} :
       sdt' = IF rx # NoFrame THEN old_ContinueFromFirst(sdt)
              ELSE [sdt EXCEPT !.pc = "old_read_again"]
  /\ UNCHANGED <<powerVars, dataVars, dispVars, emptyTurns, nameTimerRestarted, hdr, pcd, dec,
                 gt, txt, su, rt>>

\* the second CAN.read; without a frame read, the second delay and the for
\* loop's currentFrame++ and test
old_read_again ==
  /\ sdt.pc = "old_read_again"
  /\ \E rx \in RadioFrames \cup {NoFrame} :
       sdt' = IF rx # NoFrame THEN old_ContinueFromFirst(sdt)
              ELSE IF sdt.currentFrame + 1 >= NumFramesToDisplayText
              THEN [sdt EXCEPT !.pc = "CopyCarData"]
              ELSE [sdt EXCEPT !.pc = "old_send", !.currentFrame = @ + 1]
  /\ UNCHANGED <<powerVars, dataVars, dispVars, emptyTurns, nameTimerRestarted, hdr, pcd, dec,
                 gt, txt, su, rt>>

NextSetDashboardTextOld ==
  \/ old_SetDashboardText
  \/ old_send
  \/ old_read
  \/ old_read_again

SpecSetDashboardTextOld == InitSetDashboardText /\ [][NextSetDashboardTextOld]_vars

\* a step of the earlier revision that sends a frame
IsOldSend == sdt.pc = "old_send" /\ sdt'.pc = "old_read"

C40_Step ==
  (IsOldSend /\ sdt.restarted) => IndexOf(sdt'.sent[Len(sdt'.sent)]) = 0

\* C40: in the earlier revision, the frame sent next after a radio frame was
\* read and the loop restarted is frame 0
C40_RestartSendsFirstFrame == [][C40_Step]_vars

------------------------------------------------------------------------------
(* ProcessReceivedCANFrames on its own: one drain of the receive queue.      *)

PID_EngineTemp == 4099            \* 0x1003
PID_EngineOilTemp == 4866         \* 0x1302
PID_ExhaustGasTemp == 6330        \* 0x18ba
PID_AtmosphericPressure == 6486   \* 0x1956
PID_Battery == 4100               \* 0x1004

MaxDrainFrames == 2

\* PIDs[]: the descriptors in the order of the table, each with the static
\* its CalculateValue writes
PIDs ==
  << [PID |-> PID_BoostPressure,       value |-> "BoostPressure"],
     [PID |-> PID_EngineTemp,          value |-> "EngineTemp"],
     [PID |-> PID_EngineOilTemp,       value |-> "EngineOilTemp"],
     [PID |-> PID_ExhaustGasTemp,      value |-> "ExhaustGasTemp"],
     [PID |-> PID_AtmosphericPressure, value |-> "AtmosphericPressure"],
     [PID |-> PID_IgnitionKeyPosition, value |-> "IgnitionKeyPosition"],
     [PID |-> PID_Battery,             value |-> "Battery"] >>

NumPIDs == Len(PIDs)

\* the decoders, each on the bytes it reads (A = data[4], B = data[5] of a
\* module response; data[0], data[1] of a broadcast)
CalcBoostPressure(frame) == frame.d4 * 256 + frame.d5
CalcEngineTemp(frame) == frame.d4 - 40
CalcEngineOilTemp(frame) == frame.d5
CalcExhaustGasTemp(frame) == frame.d4 * 5 - 50
CalcAtmosphericPressure(frame) == frame.d4 * 256 + frame.d5
CalcBattery(frame) == frame.d5                    \* B / 10.0f, in tenths of a volt
CalcIDriveMode_FromBroadcastedFrame(frame) == frame.d1
CalcEngineRPM_FromBroadcastedFrame(frame) ==
  (frame.d0 * 256 + (frame.d1 - (frame.d1 % 4))) \div 4

\* PIDs[i].CalculateValue(data): the value the descriptor's decoder stores
CalculateValue(i, frame) ==
  CASE PIDs[i].value = "BoostPressure"       -> CalcBoostPressure(frame)
    [] PIDs[i].value = "EngineTemp"          -> CalcEngineTemp(frame)
    [] PIDs[i].value = "EngineOilTemp"       -> CalcEngineOilTemp(frame)
    [] PIDs[i].value = "ExhaustGasTemp"      -> CalcExhaustGasTemp(frame)
    [] PIDs[i].value = "AtmosphericPressure" -> CalcAtmosphericPressure(frame)
    [] PIDs[i].value = "IgnitionKeyPosition" -> CalcIgnitionKeyPosition(frame)
    [] PIDs[i].value = "Battery"             -> CalcBattery(frame)

\* for (i = 0; i < NumPIDs; i++) if (pid == PIDs[i].PID) { ...; break; }
RECURSIVE FirstMatchingPID(_, _)
FirstMatchingPID(pid, i) ==
  IF i > NumPIDs THEN 0
  ELSE IF pid = PIDs[i].PID THEN i
  ELSE FirstMatchingPID(pid, i + 1)

\* fault: a broadcast frame of any length is decoded
AnyLength(dlc) == TRUE

\* receivedCANFrame.data_length_code == 8
FullLength(dlc) == dlc = 8

\* the body of the while loop for one frame
RouteFrame(g, frame) ==
  IF IsValidCarModule(frame.id)
  THEN LET i == FirstMatchingPID(GetPID(frame), 1) IN
         IF i = 0 THEN g
         ELSE [g EXCEPT ![PIDs[i].value] = CalculateValue(i, frame)]
  ELSE IF FullLength(frame.dlc)
  THEN LET a == IF frame.id = "DriveMode"
                THEN [g EXCEPT !.DriveMode = CalcIDriveMode_FromBroadcastedFrame(frame)]
                ELSE g
           b == IF frame.id = "GearInfo"
                THEN [a EXCEPT !.Gear = CalcGear_FromBroadcastedFrame(frame)]
                ELSE a
       IN IF frame.id = "EngineRPM"
          THEN [b EXCEPT !.EngineRPM = CalcEngineRPM_FromBroadcastedFrame(frame)]
          ELSE b
  ELSE g

\* the critical section at the end of the drain
SnapshotOf(g) ==
  [Gear |-> g.Gear, EngineRPM |-> g.EngineRPM, EngineTemp |-> g.EngineTemp,
   EngineOilTemp |-> g.EngineOilTemp, ExhaustGasTemp |-> g.ExhaustGasTemp,
   AtmosphericPressure |-> g.AtmosphericPressure, BoostPressure |-> g.BoostPressure,
   DriveMode |-> g.DriveMode, Battery |-> g.Battery,
   bCarTurnedOn |-> (g.IgnitionKeyPosition # IgnOff)]

\* the frames a drain can read: module responses with each descriptor's PID
\* and with a PID of no descriptor, the three broadcasts and an identifier
\* the program does not know, with 8 and with 7 data bytes
DrainedData ==
  { [d0 |-> 44, d1 |-> 9, d4 |-> 100, d5 |-> 123],
    [d0 |-> 16, d1 |-> 49, d4 |-> IgnOff, d5 |-> 200] }

DrainedFrames ==
  { [id |-> id, dlc |-> 8, pid |-> pid, d0 |-> d.d0, d1 |-> d.d1, d4 |-> d.d4, d5 |-> d.d5] :
      id \in {"ECM", "BCM"}, pid \in {PIDs[i].PID : i \in 1..NumPIDs} \cup {0},
      d \in DrainedData }
  \cup
  { [id |-> id, dlc |-> dlc, pid |-> 0, d0 |-> d.d0, d1 |-> d.d1, d4 |-> d.d4, d5 |-> d.d5] :
      id \in {"DriveMode", "GearInfo", "EngineRPM", "Other"}, dlc \in {7, 8},
      d \in DrainedData }

\* the statics when a drain begins.  At the first drain after start-up every
\* static has its initial value but the ignition key position, which
\* CarIgnitionOn has decoded as On or Start, and the snapshot is still the
\* zero-initialised one; at a later drain the snapshot is the copy the drain
\* before it has made of the values decoded until then.
FirstDrain ==
  { [NoRt EXCEPT !.pc = "readFrame", !.g.IgnitionKeyPosition = ign,
                 !.g0.IgnitionKeyPosition = ign] : ign \in {IgnOn, IgnStart} }

LaterDrain ==
  LET g == [BoostPressure |-> 2400, EngineTemp |-> 90, EngineOilTemp |-> 95,
            ExhaustGasTemp |-> 600, AtmosphericPressure |-> 1013,
            IgnitionKeyPosition |-> IgnOn, Battery |-> 141,
            DriveMode |-> 17, Gear |-> 3, EngineRPM |-> 3000]
  IN { [pc |-> "readFrame", g |-> g, snapshot |-> SnapshotOf(g), g0 |-> g,
        snapshot0 |-> SnapshotOf(g), frames |-> << >>] }

InitRouter ==
  /\ InitProgram
  /\ HdrAtRest
  /\ PcdAtRest
  /\ DecAtRest
  /\ GtAtRest
  /\ TxtAtRest
  /\ SuAtRest
  /\ SdtAtRest
  /\ rt \in FirstDrain \cup LaterDrain

\* while (ESP32Can.readFrame(receivedCANFrame, 0)) { ... }: one frame
rt_readFrame ==
  /\ rt.pc = "readFrame"
  /\ Len(rt.frames) < MaxDrainFrames
  /\ \E frame \in DrainedFrames :
       rt' = [rt EXCEPT !.g = RouteFrame(rt.g, frame),
                        !.frames = Append(rt.frames, frame)]
  /\ UNCHANGED <<powerVars, dataVars, dispVars, emptyTurns, nameTimerRestarted,
                 hdr, pcd, dec, gt, txt, su, sdt>>

\* the queue is empty: the values are copied into g_CurrentCarData
rt_copy ==
  /\ rt.pc = "readFrame"
  /\ rt' = [rt EXCEPT !.pc = "done", !.snapshot = SnapshotOf(rt.g)]
  /\ UNCHANGED <<powerVars, dataVars, dispVars, emptyTurns, nameTimerRestarted,
                 hdr, pcd, dec, gt, txt, su, sdt>>

NextRouter == rt_readFrame \/ rt_copy

SpecRouter == InitRouter /\ [][NextRouter]_vars

\* the decoded values, and the value each frame owns according to its kind
Values ==
  {"BoostPressure", "EngineTemp", "EngineOilTemp", "ExhaustGasTemp", "AtmosphericPressure",
   "IgnitionKeyPosition", "Battery", "DriveMode", "Gear", "EngineRPM"}

OwnedValue(frame) ==
  IF frame.id \in {"ECM", "BCM"}
  THEN CASE frame.pid = 6490 -> "BoostPressure"
         [] frame.pid = 4099 -> "EngineTemp"
         [] frame.pid = 4866 -> "EngineOilTemp"
         [] frame.pid = 6330 -> "ExhaustGasTemp"
         [] frame.pid = 6486 -> "AtmosphericPressure"
         [] frame.pid = 305  -> "IgnitionKeyPosition"
         [] frame.pid = 4100 -> "Battery"
         [] OTHER -> "none"
  ELSE IF frame.dlc = 8 /\ frame.id \in {"DriveMode", "GearInfo", "EngineRPM"}
  THEN (IF frame.id = "DriveMode" THEN "DriveMode"
        ELSE IF frame.id = "GearInfo" THEN "Gear" ELSE "EngineRPM")
  ELSE "none"

Arrived(s, v) == \E i \in 1..Len(s.frames) : OwnedValue(s.frames[i]) = v

\* the snapshot field that carries a decoded value
FieldOf(v) == IF v = "IgnitionKeyPosition" THEN "bCarTurnedOn" ELSE v

\* a frame changes no value but the one it owns
FrameEffect ==
  rt'.frames # rt.frames =>
    \A v \in Values :
      v # OwnedValue(rt'.frames[Len(rt'.frames)]) => rt'.g[v] = rt.g[v]

\* C34 (as amended): a frame read by ProcessReceivedCANFrames changes only the
\* value it owns (a module response the value of the descriptor with its PID,
\* a broadcast of length 8 its drive mode, gear or RPM, any other frame
\* nothing), and the snapshot written at the end of the drain holds, for a
\* value no frame of the drain owned, the value decoded before the drain.
C34_Step ==
  /\ FrameEffect
  /\ rt'.pc = "done" =>
       \A v \in Values :
         ~Arrived(rt', v) =>
           rt'.snapshot[FieldOf(v)] =
             (IF v = "IgnitionKeyPosition" THEN rt'.g0[v] # 0 ELSE rt'.g0[v])

C34_FrameEffect == [][C34_Step]_vars

\* a drain that has read a short gear broadcast and a module response with a
\* PID of no descriptor, and has left every value as it was
C34_Witness ==
  /\ rt.pc = "done"
  /\ Len(rt.frames) = 2
  /\ rt.frames[1].id = "GearInfo" /\ rt.frames[1].dlc = 7
  /\ rt.frames[2].id = "ECM" /\ rt.frames[2].pid = 0
  /\ rt.g = rt.g0
  /\ rt.g.Gear = 3
  /\ rt.snapshot = rt.snapshot0

\* C34 (as stated): ... and a value no frame of the drain owned keeps the
\* value the snapshot had before the drain.
C34_OriginalStep ==
  /\ FrameEffect
  /\ rt'.pc = "done" =>
       \A v \in Values :
         ~Arrived(rt', v) => rt'.snapshot[FieldOf(v)] = rt'.snapshot0[FieldOf(v)]

C34_SnapshotKeepsPriorValue == [][C34_OriginalStep]_vars

------------------------------------------------------------------------------
(* The idle toggle of GenerateText under every combination of the four idle  *)
(* conditions.                                                                *)

MaxSteadyToggles == 5   \* cap of the count of idle toggles under one set of conditions

\* what CopyCarData and ProcessCarData may leave while the car idles or
\* reverses, for each combination of boost to report, battery low, engine
\* cold with high RPM (which needs reverse gear) and turbo cooling down, and
\* one cycle of driving
IdleToggleSamples ==
  { Sample(IF cold THEN 3500 ELSE 800, IF cold THEN -1 ELSE 0, IF cold THEN 50 ELSE 90, "N",
           IF low THEN 120 ELSE 130, IF boost THEN 15 * PsiScale ELSE 0,
           IF cooling THEN 30 * 1000 ELSE 0) :
      cold \in BOOLEAN, low \in BOOLEAN, boost \in BOOLEAN, cooling \in BOOLEAN }
  \cup { Sample(2000, 1, 90, "N", 130, 0, 0) }

\* the last four entries of a log
LastFour(log) == IF Len(log) > 4 THEN SubSeq(log, Len(log) - 3, Len(log)) ELSE log

\* the call s -> after is one that makes an idle toggle
TogglesIdle(s) ==
  ~ShowNameAndVersion(s) /\ IsCarIdlingOrInReverse(s) /\ s.timerToggleInfoWhileIdling = 0

\* steady: the set S of idle conditions that has held in every cycle of
\* idling or reverse up to this one, the count of the idle toggles made under
\* it and the indexes the latest four of them chose
SteadyAfter(s, after) ==
  IF ~IsCarIdlingOrInReverse(s) THEN NoGt.steady
  ELSE LET base == IF ActiveNow(s) = s.steady.S THEN s.steady
                   ELSE [S |-> ActiveNow(s), toggles |-> 0, log |-> << >>]
       IN IF TogglesIdle(s)
          THEN [base EXCEPT !.toggles = Min(@ + 1, MaxSteadyToggles),
                            !.log = LastFour(Append(@, after.infoIndexWhileIdling))]
          ELSE base

\* the time of the previous cycle passes and the car is on
NextIdleCycle ==
  /\ gt.pc = "CopyCarData"
  /\ \E in \in IdleToggleSamples :
       gt' = [TimersElapsed(gt, CycleTickMs) EXCEPT
                !.pc = "GenerateText",
                !.carData = in.carData,
                !.maxBoostPsi = in.maxBoostPsi,
                !.timerTurboCooldown = in.timerTurboCooldown,
                !.infoToDisplay = NoInfo]
  /\ UNCHANGED <<powerVars, dataVars, dispVars, emptyTurns, nameTimerRestarted, hdr, pcd, dec, txt, su, sdt, rt>>

\* one call of GenerateText
CallGenerateTextIdle ==
  /\ gt.pc = "GenerateText"
  /\ gt' = [AfterGenerateText(gt) EXCEPT !.steady = SteadyAfter(gt, AfterGenerateText(gt))]
  /\ UNCHANGED <<powerVars, dataVars, dispVars, emptyTurns, nameTimerRestarted, hdr, pcd, dec, txt, su, sdt, rt>>

NextIdleToggle == NextIdleCycle \/ CallGenerateTextIdle

SpecIdleToggle == InitGenerateText /\ [][NextIdleToggle]_vars

\* the member of S that follows index i in the cyclic order of the idle messages
CyclicDistance(i, j) ==
  LET n == NumInfoMessages - MinInfoIndexWhileIdling IN ((j - i + n - 1) % n) + 1

NextMember(S, i) == CHOOSE j \in S : \A k \in S : CyclicDistance(i, j) <= CyclicDistance(i, k)

\* every entry is a member of S, each follows the one before it in cyclic
\* order, and any Cardinality(S) entries in a row are all of S
RoundRobin(S, log) ==
  /\ \A i \in 1..Len(log) : log[i] \in S
  /\ \A i \in 1..(Len(log) - 1) : log[i + 1] = NextMember(S, log[i]) /\ log[i + 1] # log[i]
  /\ \A i \in 1..(Len(log) - Cardinality(S) + 1) :
       { log[j] : j \in i..(i + Cardinality(S) - 1) } = S

\* the indexes chosen by the idle toggles after the first one under S
AfterFirstToggle(st) ==
  IF st.toggles >= MaxSteadyToggles \/ st.log = << >> THEN st.log ELSE Tail(st.log)

\* an idle toggle under a set of at least two conditions that has held since
\* before the previous idle toggle
SteadyToggle ==
  /\ IsGenerateTextCall
  /\ TogglesIdle(gt)
  /\ ActiveNow(gt) = gt.steady.S
  /\ Cardinality(gt.steady.S) >= 2

\* C35 (as amended): while idling or in reverse with a fixed set S of at least
\* two idle conditions true in every cycle and the others false, each idle
\* toggle after the first one made under S selects the member of S that
\* follows the previous index in cyclic order, which is displayed once the
\* debounce delay is over; two toggles in a row never select the same message
\* and Cardinality(S) toggles in a row select every member of S.
C35_Step ==
  (SteadyToggle /\ gt.steady.toggles >= 1) =>
     /\ gt'.infoIndexWhileIdling = NextMember(gt.steady.S, gt.infoIndexWhileIdling)
     /\ gt'.infoIndexWhileIdling # gt.infoIndexWhileIdling
     /\ gt'.timerWaitBeforeShowingInfoWhileIdle.left = 0 =>
          gt'.infoToDisplay = gt'.infoIndexWhileIdling
     /\ RoundRobin(gt'.steady.S, AfterFirstToggle(gt'.steady))

C35_IdleRoundRobinAdvance == [][C35_Step]_vars

\* all four conditions hold and five idle toggles were made under them: the
\* latest four chose the four idle messages in the order of the enum, the
\* low-battery warning being displayed now
C35_Witness ==
  /\ Called
  /\ gt.steady.S = {infoMaxBoost, infoTurboCooldownTimer, infoWarningLowBattery,
                    infoWarningColdEngine}
  /\ gt.steady.toggles = MaxSteadyToggles
  /\ gt.steady.log = <<infoWarningColdEngine, infoMaxBoost, infoTurboCooldownTimer,
                       infoWarningLowBattery>>
  /\ gt.infoToDisplay = infoWarningLowBattery

\* C35 (as stated): every idle toggle made under S, the first one too, selects
\* the member of S that follows the previous index.
C35_OriginalStep ==
  SteadyToggle =>
     /\ gt'.infoIndexWhileIdling = NextMember(gt.steady.S, gt.infoIndexWhileIdling)
     /\ RoundRobin(gt'.steady.S, gt'.steady.log)

C35_EveryToggleAdvancesInS == [][C35_OriginalStep]_vars

\* the call is made in the first cycle of an episode of idling or reverse:
\* the debounce timer, started in the first idle cycle and stopped in every
\* cycle of driving, is not active
FirstCycleOfEpisode(s) ==
  IsCarIdlingOrInReverse(s) /\ ~s.timerWaitBeforeShowingInfoWhileIdle.active

C37_Step ==
  (IsGenerateTextCall /\ TogglesIdle(gt) /\ FirstCycleOfEpisode(gt)
     /\ gt'.bFoundActiveIdleMessage) =>
       gt'.infoIndexWhileIdling \in ActiveNow(gt)

\* C37: an idle toggle made in the first cycle of an episode of idling or
\* reverse that finds an active message selects one whose condition holds in
\* that cycle, never one whose flag was set in an earlier episode.
C37_NoMessageFromEarlierEpisode == [][C37_Step]_vars

-----------------------------------------------------------------------------
(* Nothing is transmitted while the car is off *)

\* C36: as long as no 8-byte drive-mode frame has been read since the reset
\* that began this wake / probe / sleep cycle, the device has transmitted no
\* frame: none on the high-speed bus, whose transceiver has not been in
\* normal mode, and none on the low-speed bus, whose controller has not been
\* started and whose display task does not exist.  Nothing but g_bInDeepSleep
\* and the low-speed controller's mode survives the reset, so this holds in
\* every cycle.
C36_SilentWhileOff ==
  ~sawDriveMode =>
     /\ ~hsTx
     /\ sn65 # "normal"
     /\ mcp # "normal"
     /\ task = "none"
     /\ dpc = "none"
     /\ stepTx = -1

\* the probe of a later cycle has ended without a drive-mode frame and
\* DeepSleep is about to start the deep sleep: the low-speed controller is in
\* the sleep mode an earlier cycle, in which the car was on, has left it in,
\* and this cycle has transmitted nothing
C36_Witness ==
  /\ apc = "ds_sleep"
  /\ ~sawDriveMode
  /\ ~g_bInDeepSleep
  /\ mcp = "sleep"
  /\ sn65 = "listen"
  /\ ~hsTx
  /\ task = "none"

-----------------------------------------------------------------------------
(* The turbo-cooldown countdown stays within three minutes *)

\* GetTurboCooldownSeconds: timerTurboCooldown.GetTimeLeft() / 1000
GetTurboCooldownSeconds(timer) == timer.left \div 1000

\* case infoTurboCooldownTimer: min = secondsLeft / 60; sec = secondsLeft - (min * 60)
CountdownMinutes(secondsLeft) == secondsLeft \div 60
CountdownSeconds(secondsLeft) == secondsLeft - (CountdownMinutes(secondsLeft) * 60)

\* C39: after every call of ProcessCarData, and while time passes until the
\* next one, the time left of the turbo-cooldown timer is at most the
\* duration of the first table entry (180 s); the countdown GenerateText
\* would format from it has one digit of minutes and is at most 3:00.
C39_CooldownAtMostThreeMinutes ==
  LET secondsLeft == GetTurboCooldownSeconds(pcd.timerTurboCooldown) IN
    /\ pcd.timerTurboCooldown.left >= 0
    /\ pcd.timerTurboCooldown.left <= 180 * 1000
    /\ CountdownMinutes(secondsLeft) \in 0..3
    /\ CountdownSeconds(secondsLeft) \in 0..59
    /\ CountdownMinutes(secondsLeft) = 3 => CountdownSeconds(secondsLeft) = 0

\* a call whose table lookup gave 30 or 60 seconds has started the timer
\* with the longest duration, the boost being that of spirited driving: 3:00
\* would be displayed
C39_Witness ==
  /\ pcd.pc = "CopyCarData"
  /\ pcd.turboCooldownDuration = MaxTurboCooldownDuration
  /\ pcd.timerTurboCooldown.left = 180 * 1000
  /\ CountdownMinutes(GetTurboCooldownSeconds(pcd.timerTurboCooldown)) = 3
  /\ pcd.tierDuration \in {30 * 1000, 60 * 1000}

====
